---------------------------- MODULE Spec2Model ----------------------------
(***************************************************************************)
(* A model of shawnpfiore/sheet_to_confluence.                             *)
(*                                                                         *)
(*   SyncSpec : src/sheet_to_confluence.py, main(): one invocation of the  *)
(*              attachment sync, over every command line of ArgSet.        *)
(*   SeqSpec  : the same main(), invoked MaxRuns times, one run after the  *)
(*              other, over the command lines of SeqArgSet.                *)
(*   PageSpec : src/generate_lessons_from_sheet.py, create_or_update_page: *)
(*              NumCallers callers of the page upsert, interleaved request *)
(*              by request.                                                *)
(*   ToolsSpec: either of the two programs.                                *)
(*                                                                         *)
(* Text is a sequence of one-character strings; "BOM" stands for the one   *)
(* character U+FEFF.  The remote systems (spreadsheet, file storage, wiki) *)
(* answer every request atomically; a request that is answered with an     *)
(* error status changes nothing on the remote side.                        *)
(***************************************************************************)
EXTENDS Integers, Sequences, FiniteSets, TLC

\* ------------------------------------------------------------------ bounds
\* invocations of the sync, one after the other
MaxRuns == 2
\* result pages the file-storage backend hands out for one folder listing
MaxPages == 2
\* chunks the file-storage backend needs for one download
MaxChunks == 2

\* --------------------------------------------------------- program constants
\* Retry(total=5, ...)
RetryTotal == 5

NoneVal == "None"
\* None where a cell is expected
NoneCell == << "None" >>

\* Retry(status_forcelist=(429, 500, 502, 503, 504))
status_forcelist == {429, 500, 502, 503, 504}
\* Retry(allowed_methods=frozenset(["GET", "POST"]))
allowed_methods == {"GET", "POST"}

\* no response within the request's timeout
TimedOut == 0

\* ------------------------------------------------------------- input domains
Filenames == {"a.csv", "b.csv"}
SourceKinds == {"sheet_values", "drive_export", "drive_download", "drive_list"}

\* the tabs of the spreadsheet, as spreadsheets().get() lists them
SheetTabs == << [sheetId |-> "0", title |-> "Data"], [sheetId |-> "7", title |-> "Log"] >>
\* the value grids the spreadsheet may hold when it is read
SheetGrids == { << >>, << << <<"h">>, <<"k">> >>, << <<"x">>, <<"a", ",">> >> >> }
\* the bytes the file-storage backend may hold for the file
FileBytes == { <<"r", "1">>, <<"r", "2">> }
\* the n-th file of the folder, as files().list() reports it: the files are told
\* apart by their id, and every other one is a folder entry, which has no size
FileDigits == << "1", "2", "3", "4", "5", "6", "7", "8", "9" >>
DriveFile(n) == [id |-> <<"i", FileDigits[n]>>, name |-> <<"n">>, mimeType |-> <<"m">>,
                 modifiedTime |-> <<"t">>,
                 size |-> IF n % 2 = 1 THEN NoneCell ELSE <<"9">>]

\* what the wiki answers a request with
WikiAnswers == {200, 404, 429, 503, TimedOut}

\* ------------------------------------------------------------------- CSV
RECURSIVE Flatten(_)
Flatten(seqs) ==
    IF seqs = << >> THEN << >> ELSE Head(seqs) \o Flatten(Tail(seqs))

\* ("" if v is None else str(v))
Stringify(v) == IF v = NoneCell THEN << >> ELSE v

\* variant of the quoting rule that never quotes (csv.QUOTE_NONE without escapes)
NeedsQuote_never(field) == FALSE

\* csv.QUOTE_MINIMAL: a field is quoted when it holds the delimiter, the quote
\* character or a character of the line terminator
NeedsQuote(field) ==
    \E i \in 1..Len(field) : field[i] \in {",", "\"", "\r", "\n"}

QuoteField(field) ==
    <<"\"">> \o Flatten([i \in 1..Len(field) |->
                 IF field[i] = "\"" THEN <<"\"", "\"">> ELSE <<field[i]>>])
             \o <<"\"">>

\* csv.writer.writerow: fields joined by commas and ended by CRLF; a row of one
\* empty field is written as a quoted empty field
WriteRow(row) ==
    LET fields == [i \in 1..Len(row) |->
                     IF NeedsQuote(row[i]) \/ (Len(row) = 1 /\ row[i] = << >>)
                     THEN QuoteField(row[i]) ELSE row[i]]
    IN  Flatten([i \in 1..Len(row) |->
                   IF i = 1 THEN fields[i] ELSE <<",">> \o fields[i]])
        \o <<"\r", "\n">>

to_csv_utf8_bom(values) ==
    <<"BOM">> \o Flatten([i \in 1..Len(values) |->
                   WriteRow([j \in 1..Len(values[i]) |-> Stringify(values[i][j])])])

rows_to_csv_utf8_bom(rows) == to_csv_utf8_bom(rows)

\* main(), source-kind drive_list: the header row and one row per file
ListingRows(files) ==
    << << <<"i","d">>, <<"n","a","m","e">>, <<"m","i","m","e","T","y","p","e">>,
          <<"m","o","d","i","f","i","e","d","T","i","m","e">>, <<"s","i","z","e">> >> >>
    \o [i \in 1..Len(files) |->
          << files[i].id, files[i].name, files[i].mimeType,
             files[i].modifiedTime, files[i].size >>]


\* ------------------------------------------------------------------ state
VARIABLES
    run,          \* SyncSpec: the locals of main() in each process slot
    nruns,        \* SyncSpec: invocations started so far
    prev,         \* SyncSpec: how the previous invocation of the slot ended
    attachments,  \* wiki: the attachments of the page, in the order the wiki lists them
    next_att_id,  \* wiki: the id the next created attachment gets
    call,         \* PageSpec: the locals of create_or_update_page in each caller
    pages,        \* wiki: the pages, in the order the wiki lists them
    next_page_id, \* wiki: the id the next created page gets
    table,        \* api_server.py: a value grid and what the reader helpers made of it
    job           \* api_server.py: one request to POST /sync

vars == << run, nruns, prev, attachments, next_att_id, call, pages, next_page_id,
           table, job >>
syncVars == << run, nruns, prev, attachments, next_att_id >>
pageVars == << call, pages, next_page_id >>
libVars == << table, job >>

\* no grid is being read, no request is being served
NoTable == [pc |-> "none"]
NoJob == [pc |-> "none"]
LibIdle == table = NoTable /\ job = NoJob

\* the process slot of the attachment sync: its invocations run one at a time
SeqProcs == {1}

\* processes of generate_lessons_from_sheet.py that upsert a page at the same time
NumCallers == 2
Callers == 1..NumCallers

\* the one process of generate_lessons_from_sheet.py that runs main()'s loop
GenProcs == {1}

\* find_attachment: return None
NoId == 0
NoBytes == << "unset" >>
NoErr == [kind |-> "none", code |-> 0]

\* ------------------------------------------------ attachment sync: arguments
BaseArgs ==
    [conf_user |-> TRUE, conf_pass |-> TRUE, sa_json |-> TRUE,
     filename |-> "a.csv", source_kind |-> "sheet_values", spreadsheet |-> FALSE,
     gid |-> NoneVal, tab_name |-> NoneVal, drive_file_id |-> FALSE,
     drive_folder_id |-> FALSE, write_back_range |-> FALSE, append_log |-> FALSE]

\* (gid, tab_name) as given on the command line; tab "Data" has gid 0, no tab has gid 9
TabRefs == { <<NoneVal, NoneVal>>, <<"0", NoneVal>>, <<"9", NoneVal>>,
             <<NoneVal, "Data">>, <<"9", "Data">> }

\* The command lines and environments of one invocation.  An argument that
\* main() never reads under the other arguments keeps its BaseArgs value.
ArgSet ==
    \* a credential is missing: nothing else is read
    { [BaseArgs EXCEPT !.conf_user = c[1], !.conf_pass = c[2], !.sa_json = c[3]] :
        c \in { <<FALSE, TRUE, TRUE>>, <<TRUE, FALSE, TRUE>>, <<FALSE, FALSE, TRUE>>,
                <<TRUE, TRUE, FALSE>> } }
    \cup
    \* the required parameter of the source kind is missing
    { [BaseArgs EXCEPT !.source_kind = k, !.write_back_range = w, !.append_log = l] :
        k \in SourceKinds, w \in BOOLEAN, l \in BOOLEAN }
    \cup
    { [BaseArgs EXCEPT !.spreadsheet = TRUE, !.gid = t[1], !.tab_name = t[2],
                       !.filename = f, !.write_back_range = w, !.append_log = l] :
        t \in TabRefs, f \in Filenames, w \in BOOLEAN, l \in BOOLEAN }
    \cup
    { [BaseArgs EXCEPT !.source_kind = k, !.drive_file_id = TRUE, !.spreadsheet = s,
                       !.filename = f, !.write_back_range = w, !.append_log = l] :
        k \in {"drive_export", "drive_download"}, s \in BOOLEAN, f \in Filenames,
        w \in BOOLEAN, l \in BOOLEAN }
    \cup
    { [BaseArgs EXCEPT !.source_kind = "drive_list", !.drive_folder_id = TRUE,
                       !.spreadsheet = s, !.filename = f,
                       !.write_back_range = w, !.append_log = l] :
        s \in BOOLEAN, f \in Filenames, w \in BOOLEAN, l \in BOOLEAN }

\* variant of the scopes that asks for the edit scope in every run
Scopes_edit(a) ==
    {"spreadsheets"}
    \cup (IF a.source_kind \in {"drive_export", "drive_download", "drive_list"}
          THEN {"drive.readonly"} ELSE {})

\* main(): the credential scopes, read-only unless a write-back flag is given
Scopes(a) ==
    LET base == {"spreadsheets.readonly"}
                \cup (IF a.source_kind \in {"drive_export", "drive_download", "drive_list"}
                      THEN {"drive.readonly"} ELSE {})
    IN  IF a.write_back_range \/ a.append_log
        THEN (base \ {"spreadsheets.readonly"}) \cup {"spreadsheets"}
        ELSE base

IdleRun ==
    [pc |-> "idle", args |-> BaseArgs, scopes |-> {}, target_title |-> NoneVal,
     files |-> << >>, listed |-> << >>, tokens |-> << >>, loops |-> 0,
     payload_bytes |-> NoBytes, att_id |-> NoId,
     retries |-> RetryTotal, attempts |-> 0, run_503 |-> 0, printed |-> NoneVal, stored_id |-> NoId,
     replaced |-> NoBytes, found |-> << >>, err |-> NoErr, failed_at |-> NoneVal,
     warned |-> FALSE, reqlog |-> << >>]

\* an exception that leaves main(): __main__ prints it and exits with code 1
\* (SystemExit with a message exits with code 1 as well)
Raise(r, kind, code) ==
    [r EXCEPT !.pc = "exit1", !.err = [kind |-> kind, code |-> code], !.failed_at = r.pc]

\* one request as it leaves the process: the backend, the operation, the attachment
\* id in its URL, the status text in its body, and the last answer it got
\* build_session(user, password, timeout = 30)
SessionTimeout == 30

\* the timeout a request of the attachment sync is sent with, << >> for none:
\* _timed_request adds the session's to every wiki request that names none; the
\* execute() and next_chunk() calls of the Google client are given none
request_timeout(api) == IF api = "wiki" THEN << SessionTimeout >> ELSE << >>

Req(api, op, att, status) ==
    [api |-> api, op |-> op, att |-> att, status |-> status, answer |-> TimedOut,
     timeout |-> request_timeout(api), range |-> NoneVal]

Answered(req, answer) == [req EXCEPT !.answer = answer]

\* a call of the Google client: execute() sends the request once; it returns (200)
\* or raises HttpError (500)
Issue(r, api, op, status, ok) ==
    [r EXCEPT !.reqlog = Append(@, Answered(Req(api, op, NoId, status),
                                            IF ok THEN 200 ELSE 500)),
              !.attempts = 1, !.run_503 = 0]

\* main(), from the environment checks to the first request of the run
Configure(r) ==
    LET a == r.args IN
    IF ~a.conf_user \/ ~a.conf_pass THEN Raise(r, "SystemExit", 1)
    ELSE IF ~a.sa_json THEN Raise(r, "SystemExit", 1)
    ELSE
      LET r1 == [r EXCEPT !.scopes = Scopes(a)] IN
      CASE a.source_kind = "sheet_values" ->
             IF ~a.spreadsheet THEN Raise(r1, "SystemExit", 1)
             ELSE IF a.tab_name # NoneVal
                  THEN [r1 EXCEPT !.target_title = a.tab_name, !.pc = "values_get"]
                  ELSE [r1 EXCEPT !.pc = "meta_get"]
        [] a.source_kind = "drive_export" ->
             IF ~a.drive_file_id THEN Raise(r1, "SystemExit", 1)
             ELSE [r1 EXCEPT !.pc = "drive_export"]
        [] a.source_kind = "drive_download" ->
             IF ~a.drive_file_id THEN Raise(r1, "SystemExit", 1)
             ELSE [r1 EXCEPT !.pc = "drive_download"]
        [] a.source_kind = "drive_list" ->
             IF ~a.drive_folder_id THEN Raise(r1, "SystemExit", 1)
             ELSE [r1 EXCEPT !.pc = "drive_list"]
        [] OTHER -> Raise(r1, "SystemExit", 1)

Terminal == {"exit0", "exit1"}

\* what is known of an invocation once its process is gone
Summary(r) ==
    IF r.pc = "exit0"
    THEN [code |-> 0, filename |-> r.args.filename, printed |-> r.printed,
          att_id |-> r.stored_id, data |-> r.payload_bytes]
    ELSE [code |-> 1, filename |-> NoneVal, printed |-> NoneVal, att_id |-> NoId,
          data |-> NoBytes]

NoPrev ==
    [code |-> 1, filename |-> NoneVal, printed |-> NoneVal, att_id |-> NoId,
     data |-> NoBytes]

\* no attachment sync is running
NoRuns ==
    /\ run = [p \in SeqProcs |-> [IdleRun EXCEPT !.pc = "absent"]]
    /\ nruns = 0
    /\ prev = NoPrev
    /\ attachments = << >>
    /\ next_att_id = 1

\* no process of the page generator is running
NoCalls ==
    /\ call = [c \in Callers \cup GenProcs |-> [pc |-> "absent", reqlog |-> << >>]]
    /\ pages = << >>
    /\ next_page_id = 1

\* --------------------------------------------- attachment sync: the source
\* The command lines of SeqSpec: complete ones, of every source kind, with both
\* write-back flags or none.
SeqArgSet ==
    { a \in ArgSet :
        /\ a.conf_user /\ a.conf_pass /\ a.sa_json /\ a.spreadsheet
        /\ a.write_back_range = a.append_log
        /\ a.source_kind = "sheet_values" =>
               << a.gid, a.tab_name >> \in { <<"0", NoneVal>>, <<NoneVal, "Data">> }
        /\ a.source_kind \in {"drive_export", "drive_download"} => a.drive_file_id
        /\ a.source_kind = "drive_list" => a.drive_folder_id }

Start(p, argset) ==
    /\ \E a \in argset :
         run' = [run EXCEPT ![p] = Configure([IdleRun EXCEPT !.args = a])]
    /\ nruns' = nruns + 1
    /\ prev' = IF run[p].pc = "idle" THEN NoPrev ELSE Summary(run[p])
    /\ UNCHANGED << attachments, next_att_id, pageVars, libVars >>

\* the one invocation of SyncSpec
MainStart(p) ==
    /\ run[p].pc = "idle"
    /\ Start(p, ArgSet)

\* an invocation of SeqSpec: the process of the previous one is gone
MainRestart(p) ==
    /\ run[p].pc \in Terminal \cup {"idle"}
    /\ nruns < MaxRuns
    /\ Start(p, SeqArgSet)

\* variant of the tab search that takes the first tab of the spreadsheet
TitleOfGid_first(sheets, gid) ==
    IF sheets = << >> THEN NoneVal ELSE Head(sheets).title

\* get_sheet_values: the title of the tab whose sheetId equals the gid
RECURSIVE TitleOfGid(_, _)
TitleOfGid(sheets, gid) ==
    IF sheets = << >> THEN NoneVal
    ELSE IF Head(sheets).sheetId = gid THEN Head(sheets).title
    ELSE TitleOfGid(Tail(sheets), gid)

\* get_sheet_values, no tab name given: spreadsheets().get()
SheetsMetaGet(p) ==
    /\ run[p].pc = "meta_get"
    /\ \E ok \in BOOLEAN :
         LET r1 == Issue(run[p], "sheets", "get", NoneVal, ok)
             title == TitleOfGid(SheetTabs, r1.args.gid)
         IN run' = [run EXCEPT ![p] =
                IF ~ok THEN Raise(r1, "HttpError", 1)
                ELSE IF title = NoneVal THEN Raise(r1, "TabNotFound", 1)
                ELSE [r1 EXCEPT !.target_title = title, !.pc = "values_get"]]
    /\ UNCHANGED << nruns, prev, attachments, next_att_id, pageVars, libVars >>

\* get_sheet_values: spreadsheets().values().get(), then to_csv_utf8_bom
SheetsValuesGet(p) ==
    /\ run[p].pc = "values_get"
    /\ \E ok \in BOOLEAN, values \in SheetGrids :
         LET r0 == Issue(run[p], "sheets", "values.get", NoneVal, ok)
             r1 == [r0 EXCEPT !.reqlog[Len(r0.reqlog)].range = r0.target_title]
         IN run' = [run EXCEPT ![p] =
                IF ~ok THEN Raise(r1, "HttpError", 1)
                ELSE [r1 EXCEPT !.payload_bytes = to_csv_utf8_bom(values),
                                !.pc = "page_check"]]
    /\ UNCHANGED << nruns, prev, attachments, next_att_id, pageVars, libVars >>

\* drive_export_bytes: files().export()
DriveExport(p) ==
    /\ run[p].pc = "drive_export"
    /\ \E ok \in BOOLEAN, data \in FileBytes :
         LET r1 == Issue(run[p], "drive", "export", NoneVal, ok)
         IN run' = [run EXCEPT ![p] =
                IF ~ok THEN Raise(r1, "DriveExportFailed", 1)
                ELSE [r1 EXCEPT !.payload_bytes = data, !.pc = "page_check"]]
    /\ UNCHANGED << nruns, prev, attachments, next_att_id, pageVars, libVars >>

\* drive_download_bytes: one next_chunk() of the loop
DriveDownloadChunk(p) ==
    /\ run[p].pc = "drive_download"
    /\ \E ok \in BOOLEAN, done \in BOOLEAN, data \in FileBytes :
         /\ run[p].loops + 1 >= MaxChunks => done
         /\ LET r1 == Issue(run[p], "drive", "get_media", NoneVal, ok)
            IN run' = [run EXCEPT ![p] =
                 IF ~ok THEN Raise(r1, "DriveDownloadFailed", 1)
                 ELSE IF done
                      THEN [r1 EXCEPT !.loops = 0, !.payload_bytes = data,
                                      !.pc = "page_check"]
                      ELSE [r1 EXCEPT !.loops = @ + 1]]
    /\ UNCHANGED << nruns, prev, attachments, next_att_id, pageVars, libVars >>

\* variant of the accumulation that keeps the files of the last page only
extend_files_replace(files, page) == page

\* files.extend(results.get("files", []))
extend_files(files, page) == files \o page

\* drive_list_files: one files().list() of the loop; after the last page main()
\* builds the rows and encodes them. listed and tokens record what the backend
\* answered: the files of every page, and whether a nextPageToken came with it
DriveListPage(p) ==
    /\ run[p].pc = "drive_list"
    /\ \E ok \in BOOLEAN, count \in 0..1, token \in BOOLEAN :
         /\ run[p].loops + 1 >= MaxPages => ~token
         /\ LET r1 == Issue(run[p], "drive", "list", NoneVal, ok)
                page == [i \in 1..count |-> DriveFile(Len(r1.listed) + i)]
                files == extend_files(r1.files, page)
                r2 == [r1 EXCEPT !.listed = @ \o page, !.tokens = Append(@, token)]
            IN run' = [run EXCEPT ![p] =
                 IF ~ok THEN Raise(r1, "DriveListFailed", 1)
                 ELSE IF token
                      THEN [r2 EXCEPT !.loops = @ + 1, !.files = files]
                      ELSE [r2 EXCEPT !.loops = 0, !.files = files,
                              !.payload_bytes = rows_to_csv_utf8_bom(ListingRows(files)),
                              !.pc = "page_check"]]
    /\ UNCHANGED << nruns, prev, attachments, next_att_id, pageVars, libVars >>

\* ------------------------------------------- the wiki session of build_session
\* urllib3 Retry.is_retry / _is_read_error: an answer is retried when the method
\* is allowed and the answer is a listed status or no answer at all
is_retry(method, answer) ==
    /\ method \in allowed_methods
    /\ answer = TimedOut \/ answer \in status_forcelist

\* variant of is_exhausted that allows one failure more
is_exhausted_late(total) == total < -1

\* urllib3 Retry.increment and is_exhausted: the count left after one more failure,
\* exhausted once it is below zero
is_exhausted(total) == total < 0

\* One attempt of a request sent through the session: the request is logged when
\* it is first sent (attempts counts its attempts, run_503 the 503 answers in a
\* row); a retried answer either leaves the request in flight with
\* one retry less, or raises (requests turns urllib3's MaxRetryError into
\* RetryError for a status and ConnectionError for a missing answer); any other
\* answer is returned to the caller, r.pc untouched.
SessionAttempt(r, method, req, answer) ==
    LET first == r.retries = RetryTotal
        r1 == [r EXCEPT !.attempts = IF first THEN 1 ELSE @ + 1,
                        !.run_503 = IF answer # 503 THEN 0 ELSE IF first THEN 1 ELSE @ + 1,
                        !.reqlog = IF first THEN Append(@, Answered(req, answer))
                                   ELSE [@ EXCEPT ![Len(@)] = Answered(@, answer)]]
    IN  IF is_retry(method, answer)
        THEN IF is_exhausted(r.retries - 1)
             THEN [Raise(r1, IF answer = TimedOut THEN "ConnectionError" ELSE "RetryError",
                         answer) EXCEPT !.retries = RetryTotal]
             ELSE [r1 EXCEPT !.retries = @ - 1]
        ELSE IF answer = TimedOut
             THEN [Raise(r1, "Timeout", answer) EXCEPT !.retries = RetryTotal]
             ELSE [r1 EXCEPT !.retries = RetryTotal]

\* the answer reached the caller
Returned(method, answer) == ~is_retry(method, answer) /\ answer # TimedOut

\* variant of get_page_check without raise_for_status
get_page_check_unchecked(r, answer) == [r EXCEPT !.pc = "find"]

\* get_page_check: GET content/{page_id}, raise_for_status
get_page_check(r, answer) ==
    IF answer >= 400 THEN Raise(r, "HTTPError", answer)
    ELSE [r EXCEPT !.pc = "find"]

\* the wiki's answer to the filename lookup: the attachments of that name
Ids(atts) == [i \in 1..Len(atts) |-> atts[i].id]
ResultsFor(atts, filename) == SelectSeq(atts, LAMBDA a : a.filename = filename)

\* variant of find_attachment that reads a key the answer does not have: no match
find_attachment_nomatch(r, answer, results) ==
    IF answer >= 400 THEN Raise(r, "HTTPError", answer)
    ELSE [r EXCEPT !.found = Ids(results), !.att_id = NoId, !.pc = "create"]

\* variant of find_attachment that takes the last result
find_attachment_last(r, answer, results) ==
    IF answer >= 400 THEN Raise(r, "HTTPError", answer)
    ELSE IF results # << >>
         THEN [r EXCEPT !.found = Ids(results), !.att_id = results[Len(results)].id,
                        !.pc = "update"]
         ELSE [r EXCEPT !.found = << >>, !.att_id = NoId, !.pc = "create"]

\* find_attachment: GET child/attachment?filename=, raise_for_status, first result
find_attachment(r, answer, results) ==
    IF answer >= 400 THEN Raise(r, "HTTPError", answer)
    ELSE IF results # << >>
         THEN [r EXCEPT !.found = Ids(results), !.att_id = results[1].id, !.pc = "update"]
         ELSE [r EXCEPT !.found = << >>, !.att_id = NoId, !.pc = "create"]

\* variant of the write-back entry whose check of --spreadsheet stands before the try
WriteBackEntry_uncaught(r) ==
    LET a == r.args IN
    IF ~(a.write_back_range \/ a.append_log) THEN [r EXCEPT !.pc = "exit0"]
    ELSE IF ~a.spreadsheet THEN Raise(r, "RuntimeError", 1)
    ELSE IF a.write_back_range THEN [r EXCEPT !.pc = "wb_status"]
    ELSE [r EXCEPT !.pc = "wb_log"]

\* main(), step 3 up to its first request: nothing to write, or a missing
\* --spreadsheet raised and caught inside the try
WriteBackEntry(r) ==
    LET a == r.args IN
    IF ~(a.write_back_range \/ a.append_log) THEN [r EXCEPT !.pc = "exit0"]
    ELSE IF a.write_back_range
         THEN IF ~a.spreadsheet THEN [r EXCEPT !.warned = TRUE, !.pc = "exit0"]
              ELSE [r EXCEPT !.pc = "wb_status"]
         ELSE IF ~a.spreadsheet THEN [r EXCEPT !.warned = TRUE, !.pc = "exit0"]
              ELSE [r EXCEPT !.pc = "wb_log"]

\* variant of create_attachment that does not look at the status
create_attachment_unchecked(r, answer) ==
    WriteBackEntry([r EXCEPT !.printed = "Created"])

\* create_attachment: POST child/attachment, RuntimeError on a status >= 300
create_attachment(r, answer) ==
    IF answer >= 300 THEN Raise(r, "AttachmentCreateFailed", answer)
    ELSE WriteBackEntry([r EXCEPT !.printed = "Created"])

\* update_attachment: POST child/attachment/{att_id}/data
update_attachment(r, answer) ==
    IF answer >= 300 THEN Raise(r, "AttachmentUpdateFailed", answer)
    ELSE WriteBackEntry([r EXCEPT !.printed = "Updated"])

PageCheck(p) ==
    /\ run[p].pc = "page_check"
    /\ \E answer \in WikiAnswers :
         LET r1 == SessionAttempt(run[p], "GET", Req("wiki", "GET page", NoId, NoneVal), answer)
         IN run' = [run EXCEPT ![p] =
                IF Returned("GET", answer) THEN get_page_check(r1, answer) ELSE r1]
    /\ UNCHANGED << nruns, prev, attachments, next_att_id, pageVars, libVars >>

FindAttachment(p) ==
    /\ run[p].pc = "find"
    /\ \E answer \in WikiAnswers :
         LET r1 == SessionAttempt(run[p], "GET", Req("wiki", "GET attachment", NoId, NoneVal),
                                  answer)
         IN run' = [run EXCEPT ![p] =
                IF Returned("GET", answer)
                THEN find_attachment(r1, answer, ResultsFor(attachments, r1.args.filename))
                ELSE r1]
    /\ UNCHANGED << nruns, prev, attachments, next_att_id, pageVars, libVars >>

\* the wiki stores a new attachment under a fresh id
CreateAttachment(p) ==
    /\ run[p].pc = "create"
    /\ \E answer \in WikiAnswers :
         LET r1 == SessionAttempt(run[p], "POST", Req("wiki", "POST create", NoId, NoneVal),
                                  answer)
             stored == Returned("POST", answer) /\ answer < 300
         IN /\ run' = [run EXCEPT ![p] =
                  IF Returned("POST", answer)
                  THEN create_attachment(
                         IF stored THEN [r1 EXCEPT !.stored_id = next_att_id] ELSE r1, answer)
                  ELSE r1]
            /\ attachments' =
                  IF stored
                  THEN Append(attachments, [id |-> next_att_id, filename |-> r1.args.filename,
                                            data |-> r1.payload_bytes])
                  ELSE attachments
            /\ next_att_id' = IF stored THEN next_att_id + 1 ELSE next_att_id
    /\ UNCHANGED << nruns, prev, pageVars, libVars >>

\* the wiki replaces the data of the attachment named in the URL; it answers 404
\* when there is no such attachment
UpdateAttachment(p) ==
    /\ run[p].pc = "update"
    /\ \E answer \in WikiAnswers :
         LET id == run[p].att_id
             r1 == SessionAttempt(run[p], "POST", Req("wiki", "POST update", id, NoneVal),
                                  answer)
             stored == Returned("POST", answer) /\ answer < 300
             old == SelectSeq(attachments, LAMBDA a : a.id = id)
         IN /\ stored => old # << >>
            /\ run' = [run EXCEPT ![p] =
                  IF Returned("POST", answer)
                  THEN update_attachment(
                         IF stored THEN [r1 EXCEPT !.stored_id = id, !.replaced = old[1].data]
                         ELSE r1, answer)
                  ELSE r1]
            /\ attachments' =
                  IF stored
                  THEN [i \in 1..Len(attachments) |->
                          IF attachments[i].id = id
                          THEN [attachments[i] EXCEPT !.filename = r1.args.filename,
                                                      !.data = r1.payload_bytes]
                          ELSE attachments[i]]
                  ELSE attachments
    /\ UNCHANGED << nruns, prev, next_att_id, pageVars, libVars >>

\* ------------------------------------------------- attachment sync: write-back
\* main(), line 354
Status(r) == IF r.att_id # NoId THEN "updated" ELSE "created"

\* variant of the write-back step in which the status write has a try of its
\* own: its failure is reported and the log append goes ahead
after_status_write_own_try(r, ok) ==
    LET r1 == IF ok THEN r ELSE [r EXCEPT !.warned = TRUE]
    IN  IF r.args.append_log THEN [r1 EXCEPT !.pc = "wb_log"]
        ELSE [r1 EXCEPT !.pc = "exit0"]

\* main(), step 3 after set_sheet_values: its failure leaves the try, is caught
\* and reported, and the log append that follows in the try is skipped
after_status_write(r, ok) ==
    IF ~ok THEN [r EXCEPT !.warned = TRUE, !.pc = "exit0"]
    ELSE IF r.args.append_log THEN [r EXCEPT !.pc = "wb_log"]
    ELSE [r EXCEPT !.pc = "exit0"]

\* set_sheet_values inside the try
SetSheetValues(p) ==
    /\ run[p].pc = "wb_status"
    /\ \E ok \in BOOLEAN :
         LET r1 == Issue(run[p], "sheets", "values.update", Status(run[p]), ok)
         IN run' = [run EXCEPT ![p] = after_status_write(r1, ok)]
    /\ UNCHANGED << nruns, prev, attachments, next_att_id, pageVars, libVars >>

\* append_sheet_values inside the try
AppendSheetValues(p) ==
    /\ run[p].pc = "wb_log"
    /\ \E ok \in BOOLEAN :
         LET r1 == Issue(run[p], "sheets", "values.append", Status(run[p]), ok)
         IN run' = [run EXCEPT ![p] =
                IF ~ok THEN [r1 EXCEPT !.warned = TRUE, !.pc = "exit0"]
                ELSE [r1 EXCEPT !.pc = "exit0"]]
    /\ UNCHANGED << nruns, prev, attachments, next_att_id, pageVars, libVars >>

\* ------------------------------------------------------------------ SyncSpec
OldBytes == << "o" >>
Att(id, filename) == [id |-> id, filename |-> filename, data |-> OldBytes]
\* the page before the run: what earlier uploads, by this program or by hand,
\* may have left on it
InitAttachments ==
    { << >>,
      << Att(1, "a.csv") >>,
      << Att(1, "a.csv"), Att(2, "a.csv") >>,
      << Att(1, "b.csv"), Att(2, "a.csv") >> }

SyncInit ==
    /\ run = [p \in SeqProcs |-> IdleRun]
    /\ nruns = 0
    /\ prev = NoPrev
    /\ attachments \in InitAttachments
    /\ next_att_id = Len(attachments) + 1
    /\ NoCalls
    /\ LibIdle

AfterStart(p) ==
    \/ SheetsMetaGet(p)
    \/ SheetsValuesGet(p)
    \/ DriveExport(p)
    \/ DriveDownloadChunk(p)
    \/ DriveListPage(p)
    \/ PageCheck(p)
    \/ FindAttachment(p)
    \/ CreateAttachment(p)
    \/ UpdateAttachment(p)
    \/ SetSheetValues(p)
    \/ AppendSheetValues(p)

SyncNext == \E p \in SeqProcs : MainStart(p) \/ AfterStart(p)

SyncSpec == SyncInit /\ [][SyncNext]_vars

\* ------------------------------------------------------------------- SeqSpec
SeqInit ==
    /\ run = [p \in SeqProcs |-> IdleRun]
    /\ nruns = 0
    /\ prev = NoPrev
    /\ attachments = << >>
    /\ next_att_id = 1
    /\ NoCalls
    /\ LibIdle

SeqNext == \E p \in SeqProcs : MainRestart(p) \/ AfterStart(p)

SeqSpec == SeqInit /\ [][SeqNext]_vars

\* ------------------------------------------------------------------ RaceSpec
\* Two invocations at the same time for one page and one filename, as two
\* POST /sync requests start them: sync_now runs each batch process in the
\* thread pool and nothing serializes them. The page holds no attachment.
RaceProcs == {1, 2}

RaceStart(p) ==
    /\ run[p].pc = "idle"
    /\ Start(p, { [BaseArgs EXCEPT !.source_kind = "drive_export", !.drive_file_id = TRUE] })

RaceInit ==
    /\ run = [p \in RaceProcs |-> IdleRun]
    /\ nruns = 0
    /\ prev = NoPrev
    /\ attachments = << >>
    /\ next_att_id = 1
    /\ NoCalls
    /\ LibIdle

RaceNext ==
    \E p \in RaceProcs :
        \/ RaceStart(p)
        \/ DriveExport(p)
        \/ PageCheck(p)
        \/ FindAttachment(p)
        \/ CreateAttachment(p)
        \/ UpdateAttachment(p)

RaceSpec == RaceInit /\ [][RaceNext]_vars

\* ============================================================ page upsert
\* src/generate_lessons_from_sheet.py: the body of main()'s loop for one record
\* that is not skipped: call_llm_with_messages, then create_or_update_page.
\* Each caller is one process of the script.

\* the parent page of the lessons (PARENT_PAGE_ID)
PARENT_PAGE_ID == 100

Titles == {"T", "U"}

\* what the generation backend and the wiki answer a request of the page path with.
\* The requests of this path are sent without retries; the wiki ones carry no
\* timeout, so a request that is never answered never returns.
LlmAnswers == {200, 500, TimedOut}
PageAnswers == {200, 503}

Page(id, title, ancestors, version) ==
    [id |-> id, title |-> title, ancestors |-> ancestors, version |-> version, body |-> 0]

\* the wiki before the callers start: pages titled "T" elsewhere, directly under
\* the parent, and deeper below it
InitPages ==
    { << >>,
      << Page(1, "T", <<200>>, 1) >>,
      << Page(1, "T", <<100>>, 3) >>,
      << Page(1, "T", <<200>>, 1), Page(2, "T", <<100, 50>>, 2) >> }

\* values, header, idx and rec are main()'s: the grid it read, the normalized
\* header row, the data row its loop looks at next and the data row of the record
\* it is working on
IdleCall ==
    [pc |-> "idle", title |-> NoneVal, body |-> 0, existing_id |-> NoId,
     current_version |-> 0, page_id |-> NoId, stamp |-> 0, attempts |-> 0,
     err |-> NoErr, failed_at |-> NoneVal, reqlog |-> << >>,
     values |-> << >>, header |-> << >>, idx |-> 0, rec |-> 0]

\* a request of the page path: requests.post / session.get|put|post, sent once;
\* logged with the page id in its URL, the version number it carries (PUT) or
\* is answered with (GET version), the record and title it is sent for and the
\* answer it got
\* requests.post(..., timeout=480) to the generation backend
OllamaTimeout == 480

\* the timeout a request of the page generation is sent with, << >> for none:
\* the module's session is a plain requests.Session() and its get, put and post
\* calls name no timeout, nor do the execute() calls of the Google client
call_timeout(api) == IF api = "llm" THEN << OllamaTimeout >> ELSE << >>

Sent(k, api, op, id, version, answer) ==
    [k EXCEPT !.attempts = 1,
              !.reqlog = Append(@, [api |-> api, op |-> op, id |-> id, version |-> version,
                                    rec |-> k.rec, title |-> k.title, answer |-> answer,
                                    timeout |-> call_timeout(api)])]

\* an exception that leaves main(): the script ends with a traceback
Abort(k, kind, code) ==
    [k EXCEPT !.pc = "failed", !.err = [kind |-> kind, code |-> code], !.failed_at = k.pc]

\* main(): the record's title and the prompt are built
CallStart(c) ==
    /\ call[c].pc = "idle"
    /\ \E t \in Titles :
         call' = [call EXCEPT ![c] = [IdleCall EXCEPT !.title = t, !.pc = "generate"]]
    /\ UNCHANGED << pages, next_page_id, syncVars, libVars >>

\* variant of _call_ollama_native that returns whatever body an answer has
_call_ollama_native_lenient(k, answer) ==
    IF answer = TimedOut THEN Abort(k, "Timeout", answer)
    ELSE [k EXCEPT !.pc = "lookup"]

\* _call_ollama_native: requests.post(timeout=480), RuntimeError unless 200
_call_ollama_native(k, answer) ==
    IF answer = TimedOut THEN Abort(k, "Timeout", answer)
    ELSE IF answer # 200 THEN Abort(k, "OllamaError", answer)
    ELSE [k EXCEPT !.pc = "lookup"]

Generate(c) ==
    /\ call[c].pc = "generate"
    /\ \E answer \in LlmAnswers :
         call' = [call EXCEPT ![c] =
             _call_ollama_native(
                 [Sent(call[c], "llm", "POST generate", NoId, 0, answer) EXCEPT !.body = c], answer)]
    /\ UNCHANGED << pages, next_page_id, syncVars, libVars >>

\* the wiki's answer to the title search: the pages of that title
PagesTitled(ps, title) == SelectSeq(ps, LAMBDA pg : pg.title = title)

\* variant of the ancestor test that accepts the direct parent only
InChain_direct(pg, parent_id) ==
    pg.ancestors # << >> /\ pg.ancestors[Len(pg.ancestors)] = parent_id

InChain(pg, parent_id) == \E i \in 1..Len(pg.ancestors) : pg.ancestors[i] = parent_id

\* variant of get_page_by_title without the ancestor check: the first result
get_page_by_title_first(results, parent_id) ==
    IF results = << >> THEN NoId ELSE Head(results).id

\* get_page_by_title: the id of the first result with the parent among its
\* ancestors, None when there is none
RECURSIVE get_page_by_title(_, _)
get_page_by_title(results, parent_id) ==
    IF results = << >> THEN NoId
    ELSE IF InChain(Head(results), parent_id) THEN Head(results).id
    ELSE get_page_by_title(Tail(results), parent_id)

\* create_or_update_page up to the branch on existing_id
AfterLookup(k, answer, results) ==
    IF answer >= 400 THEN Abort(k, "HTTPError", answer)
    ELSE LET id == get_page_by_title(results, PARENT_PAGE_ID)
         IN  [k EXCEPT !.existing_id = id,
                       !.pc = IF id # NoId THEN "get_version" ELSE "post"]

Lookup(c) ==
    /\ call[c].pc = "lookup"
    /\ \E answer \in PageAnswers :
         call' = [call EXCEPT ![c] =
             AfterLookup([Sent(call[c], "wiki", "GET search", NoId, 0, answer)
                             EXCEPT !.stamp = next_page_id],
                         answer, PagesTitled(pages, call[c].title))]
    /\ UNCHANGED << pages, next_page_id, syncVars, libVars >>

PageById(ps, id) == SelectSeq(ps, LAMBDA pg : pg.id = id)[1]

\* create_or_update_page: GET content/{id}?expand=version
AfterGetVersion(k, answer, number) ==
    IF answer >= 400 THEN Abort(k, "HTTPError", answer)
    ELSE [k EXCEPT !.current_version = number, !.pc = "put"]

GetVersion(c) ==
    /\ call[c].pc = "get_version"
    /\ \E answer \in PageAnswers :
         call' = [call EXCEPT ![c] =
             AfterGetVersion(Sent(call[c], "wiki", "GET version", call[c].existing_id,
                                  PageById(pages, call[c].existing_id).version, answer),
                             answer, PageById(pages, call[c].existing_id).version)]
    /\ UNCHANGED << pages, next_page_id, syncVars, libVars >>

\* variant of the update payload that resends the version it read
UpdateVersion_same(k) == k.current_version

\* create_or_update_page: the version the update carries
UpdateVersion(k) == k.current_version + 1

\* variant that reads the version again when the update is rejected as stale
AfterPut_reread(k, answer) ==
    IF answer = 409 THEN [k EXCEPT !.pc = "get_version"]
    ELSE IF answer >= 400 THEN Abort(k, "HTTPError", answer)
    ELSE [k EXCEPT !.page_id = k.existing_id, !.pc = "done"]

\* create_or_update_page: after the PUT
AfterPut(k, answer) ==
    IF answer >= 400 THEN Abort(k, "HTTPError", answer)
    ELSE [k EXCEPT !.page_id = k.existing_id, !.pc = "done"]

\* the page as the update leaves it: a direct child of the parent it names
Updated(pg, k, version) ==
    [pg EXCEPT !.title = k.title, !.version = version,
               !.ancestors = << PARENT_PAGE_ID >>, !.body = k.body]

\* The wiki accepts an update that carries the stored version plus one and
\* answers 409 to any other.
PutUpdate(c) ==
    /\ call[c].pc = "put"
    /\ LET k == call[c]
           v == UpdateVersion(k)
           fresh == v = PageById(pages, k.existing_id).version + 1
       IN \E answer \in PageAnswers \cup {409} :
            /\ answer = 200 => fresh
            /\ answer = 409 => ~fresh
            /\ call' = [call EXCEPT ![c] =
                 AfterPut(Sent(k, "wiki", "PUT update", k.existing_id, v, answer), answer)]
            /\ pages' = IF answer = 200
                        THEN [i \in 1..Len(pages) |->
                                IF pages[i].id = k.existing_id
                                THEN Updated(pages[i], k, v) ELSE pages[i]]
                        ELSE pages
    /\ UNCHANGED << next_page_id, syncVars, libVars >>

\* variant of the creation payload without the ancestors entry: a top-level page
Created_orphan(k, id) ==
    [id |-> id, title |-> k.title, ancestors |-> << >>, version |-> 1, body |-> k.body]

\* the page a creation request asks for
Created(k, id) ==
    [id |-> id, title |-> k.title, ancestors |-> << PARENT_PAGE_ID >>, version |-> 1,
     body |-> k.body]

\* create_or_update_page: after the POST
AfterPost(k, answer, id) ==
    IF answer >= 400 THEN Abort(k, "HTTPError", answer)
    ELSE [k EXCEPT !.page_id = id, !.pc = "done"]

\* the wiki stores a new page under a fresh id
PostCreate(c) ==
    /\ call[c].pc = "post"
    /\ \E answer \in PageAnswers :
         /\ call' = [call EXCEPT ![c] =
              AfterPost(Sent(call[c], "wiki", "POST create", NoId, 0, answer), answer,
                        next_page_id)]
         /\ pages' = IF answer = 200
                     THEN Append(pages, Created(call[c], next_page_id)) ELSE pages
         /\ next_page_id' = IF answer = 200 THEN next_page_id + 1 ELSE next_page_id
    /\ UNCHANGED << syncVars, libVars >>

PageInit ==
    /\ call = [c \in Callers |-> IdleCall]
    /\ pages \in InitPages
    /\ next_page_id = Len(pages) + 1
    /\ NoRuns
    /\ LibIdle

PageStep(c) ==
    \/ CallStart(c)
    \/ Generate(c)
    \/ Lookup(c)
    \/ GetVersion(c)
    \/ PutUpdate(c)
    \/ PostCreate(c)

PageNext == \E c \in Callers : PageStep(c)

PageSpec == PageInit /\ [][PageNext]_vars

\* ======================================================= generation pipeline
\* src/generate_lessons_from_sheet.py, main(): read the sheet, then for each data
\* row either skip it or generate a lesson and upsert its page.

\* str.strip() and \s of the re module: the whitespace characters
Whitespace == {" ", "\t", "\n"}

RECURSIVE lstrip(_)
lstrip(s) ==
    IF s # << >> /\ Head(s) \in Whitespace THEN lstrip(Tail(s)) ELSE s

RECURSIVE rstrip(_)
rstrip(s) ==
    IF s # << >> /\ s[Len(s)] \in Whitespace THEN rstrip(SubSeq(s, 1, Len(s) - 1)) ELSE s

\* str.strip()
strip(s) == rstrip(lstrip(s))

\* re.sub(r"\s+", " ", name): every run of whitespace becomes one space
RECURSIVE collapse(_)
collapse(s) ==
    IF s = << >> THEN << >>
    ELSE IF Head(s) \in Whitespace
         THEN << " " >> \o collapse(lstrip(s))
         ELSE << Head(s) >> \o collapse(Tail(s))

\* main(): normalize(name)
normalize(name) == strip(collapse(name))

\* the column names main() reads
K_Module == << "M", "o", "d", "u", "l", "e" >>
K_Section == << "S", "e", "c", "t", "i", "o", "n" >>
K_SectionTitle == K_Section \o << " ", "T", "i", "t", "l", "e" >>

\* main(): not any(cell.strip() for cell in row_vals)
is_blank_row(row_vals) == \A i \in 1..Len(row_vals) : strip(row_vals[i]) = << >>

\* main(): row_dict, a dict comprehension over the header: a later column of the
\* same name replaces an earlier one, a column the row does not reach is ""
row_dict(header, row_vals) ==
    [name \in {header[i] : i \in 1..Len(header)} |->
        LET i == CHOOSE j \in 1..Len(header) :
                    /\ header[j] = name
                    /\ \A l \in 1..Len(header) : header[l] = name => l <= j
        IN  IF i <= Len(row_vals) THEN strip(row_vals[i]) ELSE << >>]

\* dict.get(key, "")
dict_get(d, key) == IF key \in DOMAIN d THEN d[key] ELSE << >>

\* main(): the fields of mapped that the loop itself uses
mapped_of(d) ==
    [Module |-> dict_get(d, K_Module), Section |-> dict_get(d, K_Section),
     SectionTitle |-> dict_get(d, K_SectionTitle)]

\* variant of the key-info test that asks for the section only
lacks_key_info_section(mapped) == mapped.Section = << >>

\* main(): not mapped["Section"] or not mapped["Section Title"]
lacks_key_info(mapped) == mapped.Section = << >> \/ mapped.SectionTitle = << >>

\* main(): f'{Module}.{Section} – {Section Title}'.strip(); "ENDASH" stands for the
\* one character U+2013
page_title(mapped) ==
    strip(mapped.Module \o << "." >> \o mapped.Section \o << " ", "ENDASH", " " >>
          \o mapped.SectionTitle)

\* data rows of the sheet
MaxRecords == 3

\* the header rows the sheet may have: tidy, untidy, and without a title column
GenHeaders ==
    { << K_Module, K_Section, K_SectionTitle >>,
      << << " " >> \o K_Module, K_Section \o << " " >>,
         K_Section \o << " ", "\t", "T", "i", "t", "l", "e" >> >>,
      << K_Module, K_Section >> }

\* the data rows the sheet may have: empty, blank, complete, without section,
\* too short for a title, without module
GenRows ==
    { << >>,
      << << >>, << " ", " " >> >>,
      << << "1" >>, << "1" >>, << "A" >> >>,
      << << "1" >>, << " " >>, << "A" >> >>,
      << << "1" >>, << "2" >> >>,
      << << >>, << "2", " " >>, << "B" >> >> }

RECURSIVE SeqsUpTo(_, _)
SeqsUpTo(S, n) ==
    IF n = 0 THEN { << >> }
    ELSE LET shorter == SeqsUpTo(S, n - 1)
         IN  shorter \cup { Append(q, x) : q \in shorter, x \in S }

\* what values().get() may return: nothing, or a header row and data rows
GenGrids(n) ==
    { << >> } \cup { << h >> \o rows : h \in GenHeaders, rows \in SeqsUpTo(GenRows, n) }

\* main() up to the loop: the sheet is read (two requests, sent once each)
GenRead(c) ==
    /\ call[c].pc = "main"
    /\ \E ok \in BOOLEAN, values \in GenGrids(MaxRecords) :
         LET k == Sent(call[c], "sheets", "values.get", NoId, 0, IF ok THEN 200 ELSE 500)
         IN call' = [call EXCEPT ![c] =
              IF ~ok THEN Abort(k, "HttpError", 500)
              ELSE IF values = << >> THEN [k EXCEPT !.pc = "finished"]
              ELSE [k EXCEPT !.values = values,
                             !.header = [i \in 1..Len(values[1]) |-> normalize(values[1][i])],
                             !.idx = 1, !.pc = "loop"]]
    /\ UNCHANGED << pages, next_page_id, syncVars, libVars >>

\* main(): one turn of the for loop up to its first request; data row idx is
\* values[idx + 1]
NextRow(c) ==
    /\ call[c].pc \in {"loop", "done"}
    /\ LET k == call[c]
           last == k.idx > Len(k.values) - 1
           row_vals == k.values[k.idx + 1]
           mapped == mapped_of(row_dict(k.header, row_vals))
       IN  call' = [call EXCEPT ![c] =
             IF last THEN [k EXCEPT !.pc = "finished"]
             ELSE IF is_blank_row(row_vals) THEN [k EXCEPT !.idx = @ + 1, !.pc = "loop"]
             ELSE IF lacks_key_info(mapped) THEN [k EXCEPT !.idx = @ + 1, !.pc = "loop"]
             ELSE [k EXCEPT !.rec = k.idx, !.idx = @ + 1, !.title = page_title(mapped),
                            !.existing_id = NoId, !.current_version = 0,
                            !.page_id = NoId, !.pc = "generate"]]
    /\ UNCHANGED << pages, next_page_id, syncVars, libVars >>

\* the title of the complete row of GenRows
TitleOfRow == << "1", ".", "1", " ", "ENDASH", " ", "A" >>

\* the lessons parent before the run: empty, or holding the page of that row
GenInitPages ==
    { << >>, << Page(1, TitleOfRow, << PARENT_PAGE_ID >>, 1) >> }

GenInit ==
    /\ call = [c \in GenProcs |-> [IdleCall EXCEPT !.pc = "main"]]
    /\ pages \in GenInitPages
    /\ next_page_id = Len(pages) + 1
    /\ NoRuns
    /\ LibIdle

GenStep(c) ==
    \/ GenRead(c)
    \/ NextRow(c)
    \/ Generate(c)
    \/ Lookup(c)
    \/ GetVersion(c)
    \/ PutUpdate(c)
    \/ PostCreate(c)

GenNext == \E c \in GenProcs : GenStep(c)

GenSpec == GenInit /\ [][GenNext]_vars

\* ------------------------------------------------- both programs, one at a time
\* Either the attachment sync runs or the callers of the page path run.
ToolsInit == SyncInit \/ PageInit

ToolsNext == SyncNext \/ PageNext

ToolsSpec == ToolsInit /\ [][ToolsNext]_vars

\* ============================================================ reader helpers
\* src/api_server.py: _normalize_table and _rows_to_dicts, applied to a value grid
\* as values().get() returns it (rows of strings, of any lengths).

\* rows of a grid, the header row included
MaxRows == 3
\* cells of a row
MaxCols == 2

\* the cells a header row and a data row may hold
HeaderCells == { << "a" >>, << "b" >>, << " ", "a" >> }
DataCells == { << "x" >>, << >> }

\* the grid [["Module", "Section"], ["", "  "]]
GridOfBlanks == << << K_Module, K_Section >>, << << >>, << " ", " " >> >> >>

TableGrids(nrows, ncols) ==
    { << >>, GridOfBlanks }
    \cup { << h >> \o rows : h \in SeqsUpTo(HeaderCells, ncols),
                            rows \in SeqsUpTo(SeqsUpTo(DataCells, ncols), nrows - 1) }

\* max(len(r) for r in values)
max_cols(values) ==
    CHOOSE m \in {Len(values[i]) : i \in 1..Len(values)} :
        \A i \in 1..Len(values) : Len(values[i]) <= m

\* variant of _normalize_table that pads to the length of the header row
_normalize_table_header(values) ==
    IF values = << >> THEN values
    ELSE [i \in 1..Len(values) |->
            values[i] \o [j \in 1..(Len(values[1]) - Len(values[i])) |-> << >>]]

\* _normalize_table: r + [""] * (max_cols - len(r)) for every row
_normalize_table(values) ==
    IF values = << >> THEN values
    ELSE [i \in 1..Len(values) |->
            values[i] \o [j \in 1..(max_cols(values) - Len(values[i])) |-> << >>]]

\* {headers[i]: row[i] for i in range(len(headers))}: a later column of the same
\* header replaces an earlier one
item_of(headers, row) ==
    [name \in {headers[i] : i \in 1..Len(headers)} |->
        row[CHOOSE j \in 1..Len(headers) :
                /\ headers[j] = name
                /\ \A l \in 1..Len(headers) : headers[l] = name => l <= j]]

\* variant of _rows_to_dicts that keys the records by the header cells as they are
_rows_to_dicts_raw(values) ==
    LET v == _normalize_table(values)
    IN  IF v = << >> THEN << >>
        ELSE [r \in 1..(Len(v) - 1) |-> item_of(v[1], v[r + 1])]

\* variant of _rows_to_dicts that keeps the first column of a header
_rows_to_dicts_first(values) ==
    LET v == _normalize_table(values)
        headers == [i \in 1..Len(v[1]) |-> strip(v[1][i])]
    IN  IF v = << >> THEN << >>
        ELSE [r \in 1..(Len(v) - 1) |->
                [name \in {headers[i] : i \in 1..Len(headers)} |->
                    v[r + 1][CHOOSE j \in 1..Len(headers) :
                                /\ headers[j] = name
                                /\ \A l \in 1..Len(headers) : headers[l] = name => j <= l]]]

\* variant of _rows_to_dicts that trims the values as it trims the headers
_rows_to_dicts_trimmed(values) ==
    LET v == _normalize_table(values)
        headers == [i \in 1..Len(v[1]) |-> strip(v[1][i])]
    IN  IF v = << >> THEN << >>
        ELSE [r \in 1..(Len(v) - 1) |->
                item_of(headers, [i \in 1..Len(v[r + 1]) |-> strip(v[r + 1][i])])]

\* _rows_to_dicts: normalize, strip the header cells, one dict per later row
_rows_to_dicts(values) ==
    LET v == _normalize_table(values)
        headers == [i \in 1..Len(v[1]) |-> strip(v[1][i])]
    IN  IF v = << >> THEN << >>
        ELSE [r \in 1..(Len(v) - 1) |-> item_of(headers, v[r + 1])]

\* a grid handed to a helper
TableStart(grids) == { [pc |-> "grid", values |-> g, out |-> << >>] : g \in grids }

TableNormalize ==
    /\ table.pc = "grid"
    /\ table' = [table EXCEPT !.pc = "normalized", !.out = _normalize_table(table.values)]
    /\ UNCHANGED << job, syncVars, pageVars >>

TableToRecords ==
    /\ table.pc = "grid"
    /\ table' = [table EXCEPT !.pc = "records", !.out = _rows_to_dicts(table.values)]
    /\ UNCHANGED << job, syncVars, pageVars >>

RecordsInit ==
    /\ table \in TableStart(TableGrids(MaxRows, MaxCols))
    /\ job = NoJob
    /\ NoRuns
    /\ NoCalls

RecordsNext == TableNormalize \/ TableToRecords

RecordsSpec == RecordsInit /\ [][RecordsNext]_vars

\* ---------------------------------------------------------- CSV encoding
\* src/sheet_to_confluence.py, to_csv_utf8_bom applied to a value grid.

\* rows of an encoded grid, and cells of one of its rows
MaxCsvRows == 2
MaxCsvCols == 2

\* printable-ASCII cells: empty, plain, a comma, a double quote after a letter
CsvCells == { << >>, << "a" >>, << "," >>, << "a", "\"" >> }

CsvGrids(nrows, ncols) == SeqsUpTo(SeqsUpTo(CsvCells, ncols), nrows)

CsvEncode ==
    /\ table.pc = "grid"
    /\ table' = [table EXCEPT !.pc = "encoded", !.out = to_csv_utf8_bom(table.values)]
    /\ UNCHANGED << job, syncVars, pageVars >>

CsvInit ==
    /\ table \in TableStart(CsvGrids(MaxCsvRows, MaxCsvCols))
    /\ job = NoJob
    /\ NoRuns
    /\ NoCalls

CsvNext == CsvEncode

CsvSpec == CsvInit /\ [][CsvNext]_vars

\* ------------------------------------------------- one sheet, both readers
\* The generation pipeline runs while a grid is handed to the reader helpers.
ReaderInit ==
    /\ call = [c \in GenProcs |-> [IdleCall EXCEPT !.pc = "main"]]
    /\ pages \in GenInitPages
    /\ next_page_id = Len(pages) + 1
    /\ NoRuns
    /\ table \in TableStart({GridOfBlanks})
    /\ job = NoJob

ReaderNext == GenNext \/ RecordsNext

ReaderSpec == ReaderInit /\ [][ReaderNext]_vars

\* ------------------------------------------------------ the job endpoint
\* src/api_server.py, POST /sync: sync_now runs _run_sync_blocking in the thread
\* pool and turns what it returns or raises into the answer.

\* the request bodies: every field is optional
SyncRequests ==
    [source_kind : {NoneVal, "drive_export"}, attachment_filename : {NoneVal, "a.csv"},
     sheet_gid : {NoneVal, "7"}, sheet_tab_name : {NoneVal, "Log"}]

\* os.environ of the service; NoneVal stands for a variable that is not set
Environs ==
    [SOURCE_KIND : {"sheet_values"}, ATTACHMENT_FILENAME : {"data.csv"},
     SHEET_GID : {NoneVal, "0"}, SHEET_TAB_NAME : {NoneVal, "Data"},
     SYNC_TIMEOUT_SECONDS : {NoneVal, << "5" >>, << "x" >>}]

\* what the batch process does when it is run: whether bash can be started, the
\* seconds it runs for, its exit code and what it writes
Processes ==
    [starts : BOOLEAN, seconds : {1, 10, 700}, code : {0, 1, -9},
     stdout : {"", "done"}, stderr : {"", "boom"}]

DigitValue ==
    [ch \in {"0", "1", "2", "3", "4", "5", "6", "7", "8", "9"} |->
        CASE ch = "0" -> 0 [] ch = "1" -> 1 [] ch = "2" -> 2 [] ch = "3" -> 3
          [] ch = "4" -> 4 [] ch = "5" -> 5 [] ch = "6" -> 6 [] ch = "7" -> 7
          [] ch = "8" -> 8 [] ch = "9" -> 9]

\* int(text) of a text of decimal digits; any other text raises ValueError
is_int(text) == text # << >> /\ \A i \in 1..Len(text) : text[i] \in DOMAIN DigitValue
RECURSIVE int_of(_)
int_of(text) ==
    IF text = << >> THEN 0
    ELSE 10 * int_of(SubSeq(text, 1, Len(text) - 1)) + DigitValue[text[Len(text)]]

\* os.getenv("SYNC_TIMEOUT_SECONDS", "600")
timeout_setting(environ) ==
    IF environ.SYNC_TIMEOUT_SECONDS = NoneVal THEN << "6", "0", "0" >>
    ELSE environ.SYNC_TIMEOUT_SECONDS

\* the environment handed to the batch process
sync_env(req, environ) ==
    LET e1 == IF req.source_kind # NoneVal
              THEN [environ EXCEPT !.SOURCE_KIND = req.source_kind] ELSE environ
        e2 == IF req.attachment_filename # NoneVal
              THEN [e1 EXCEPT !.ATTACHMENT_FILENAME = req.attachment_filename] ELSE e1
        e3 == IF req.sheet_gid # NoneVal
              THEN [e2 EXCEPT !.SHEET_GID = req.sheet_gid, !.SHEET_TAB_NAME = ""] ELSE e2
    IN  IF req.sheet_tab_name # NoneVal
        THEN [e3 EXCEPT !.SHEET_TAB_NAME = req.sheet_tab_name, !.SHEET_GID = ""] ELSE e3

\* _run_sync_blocking: what it returns, or the exception that leaves it
_run_sync_blocking(req, environ, process) ==
    LET env == sync_env(req, environ)
        raised(kind) == [kind |-> kind, env |-> env, code |-> 0,
                         stdout |-> NoneVal, stderr |-> NoneVal]
    IN  IF ~is_int(timeout_setting(environ)) THEN raised("ValueError")
        ELSE IF ~process.starts THEN raised("OSError")
        ELSE IF process.seconds > int_of(timeout_setting(environ))
             THEN [kind |-> "TimeoutExpired", env |-> env, code |-> 0,
                   stdout |-> process.stdout, stderr |-> process.stderr]
             ELSE [kind |-> "returned", env |-> env, code |-> process.code,
                   stdout |-> process.stdout, stderr |-> process.stderr]

\* variant of the answer that reports success whatever the process returned
sync_now_anyexit(result) ==
    [status |-> 200, ok |-> TRUE, error |-> NoneVal, exit_code |-> 0,
     stdout |-> result.stdout, stderr |-> result.stderr]

\* sync_now: the answer to the request; a key the body lacks is NoneVal
sync_now(result) ==
    IF result.kind = "TimeoutExpired"
    THEN [status |-> 504, ok |-> FALSE, error |-> "sync timed out", exit_code |-> 0,
          stdout |-> result.stdout, stderr |-> result.stderr]
    ELSE IF result.kind # "returned"
    THEN [status |-> 500, ok |-> FALSE, error |-> "sync failed", exit_code |-> 0,
          stdout |-> NoneVal, stderr |-> NoneVal]
    ELSE IF result.code # 0
    THEN [status |-> 500, ok |-> FALSE, error |-> NoneVal, exit_code |-> result.code,
          stdout |-> result.stdout, stderr |-> result.stderr]
    ELSE [status |-> 200, ok |-> TRUE, error |-> NoneVal, exit_code |-> 0,
          stdout |-> result.stdout, stderr |-> result.stderr]

\* the thread pool runs _run_sync_blocking
RunSyncBlocking ==
    /\ job.pc = "request"
    /\ \E process \in Processes :
         job' = [job EXCEPT !.pc = "ran", !.process = process,
                   !.result = _run_sync_blocking(job.req, job.environ, process)]
    /\ UNCHANGED << table, syncVars, pageVars >>

\* sync_now after the await
SyncNowAnswers ==
    /\ job.pc = "ran"
    /\ job' = [job EXCEPT !.pc = "answered", !.response = sync_now(job.result)]
    /\ UNCHANGED << table, syncVars, pageVars >>

JobInit ==
    /\ job \in [pc : {"request"}, req : SyncRequests, environ : Environs,
                process : {NoneVal}, result : {NoneVal}, response : {NoneVal}]
    /\ table = NoTable
    /\ NoRuns
    /\ NoCalls

JobNext == RunSyncBlocking \/ SyncNowAnswers

JobSpec == JobInit /\ [][JobNext]_vars

\* ================================================================ properties
\* the requests of a run, by kind
Uploads(r) == SelectSeq(r.reqlog, LAMBDA q : q.op \in {"POST create", "POST update"})
WikiReqs(r) == SelectSeq(r.reqlog, LAMBDA q : q.api = "wiki")
\* a wiki request of the run is being sent, or sent again
InFlight(r) == r.pc \in {"page_check", "find", "create", "update"}
LastReq(r) == r.reqlog[Len(r.reqlog)]

\* C1: when a sync that ended with exit code 0 and created the attachment is
\* followed by a sync of the same filename with other bytes that also ends with
\* exit code 0, the second found exactly the first one's attachment id, updated
\* it, and the page holds exactly one attachment of that filename, with the
\* second sync's bytes.
C1_SecondSyncUpdatesTheSame ==
    \A p \in DOMAIN run :
        LET r == run[p]
            res == ResultsFor(attachments, r.args.filename)
        IN  ( /\ r.pc = "exit0"
              /\ prev.code = 0 /\ prev.printed = "Created"
              /\ prev.filename = r.args.filename
              /\ prev.data # r.payload_bytes )
            => /\ r.found = << prev.att_id >>
               /\ r.printed = "Updated"
               /\ r.stored_id = prev.att_id
               /\ Len(res) = 1
               /\ res[1].id = prev.att_id
               /\ res[1].data = r.payload_bytes

\* C1 witness: the second of two syncs of one filename has ended, having replaced
\* the bytes the first one stored with its own.
C1_Witness ==
    \E p \in DOMAIN run :
        /\ nruns = 2 /\ run[p].pc = "exit0"
        /\ prev.code = 0 /\ prev.printed = "Created"
        /\ prev.filename = run[p].args.filename
        /\ prev.data # run[p].payload_bytes
        /\ run[p].replaced = prev.data
        /\ run[p].printed = "Updated"
        /\ Len(ResultsFor(attachments, run[p].args.filename)) = 1

\* C2: a run issues at most one upload, and exactly one once the upload step is
\* behind it; the upload goes to the update endpoint of the first id the lookup
\* returned when the lookup returned any, and to the creation endpoint when it
\* returned none; the printed line and every status text written back name the
\* endpoint the upload went to.
C2_OneUploadToTheFoundEndpoint ==
    \A p \in DOMAIN run :
        LET r == run[p]
            u == Uploads(r)
        IN  /\ Len(u) <= 1
            /\ (r.pc \in {"wb_status", "wb_log", "exit0"}
                   \/ r.failed_at \in {"create", "update"}) => Len(u) = 1
            /\ Len(u) = 1 =>
                 /\ r.found # << >> => u[1].op = "POST update" /\ u[1].att = r.found[1]
                 /\ r.found = << >> => u[1].op = "POST create" /\ u[1].att = NoId
            /\ r.printed # NoneVal =>
                 /\ Len(u) = 1
                 /\ r.printed = (IF u[1].op = "POST update" THEN "Updated" ELSE "Created")
            /\ \A i \in 1..Len(r.reqlog) :
                 r.reqlog[i].status # NoneVal =>
                    /\ Len(u) = 1
                    /\ r.reqlog[i].status =
                          (IF u[1].op = "POST update" THEN "updated" ELSE "created")

\* C2 witness: the lookup returned two attachments, the upload went to the update
\* endpoint of the first, and the status cell was written with "updated".
C2_Witness ==
    \E p \in DOMAIN run :
        LET r == run[p] IN
        /\ r.pc = "exit0" /\ Len(r.found) = 2
        /\ Len(Uploads(r)) = 1
        /\ Uploads(r)[1].op = "POST update" /\ Uploads(r)[1].att = r.found[1]
        /\ \E i \in 1..Len(r.reqlog) : r.reqlog[i].status = "updated"

\* C3: the wiki requests of a run are, in this order, the page fetch, the
\* attachment lookup and one upload; the lookup is sent only after the page fetch
\* was answered 200 and the upload only after the lookup was answered 200; a run
\* whose page fetch or lookup ended without a 200 has failed.
C3_PageFetchThenLookupThenUpload ==
    \A p \in DOMAIN run :
        LET r == run[p]
            w == WikiReqs(r)
        IN  /\ Len(w) <= 3
            /\ Len(w) >= 1 => w[1].op = "GET page"
            /\ Len(w) >= 2 => w[2].op = "GET attachment" /\ w[1].answer = 200
            /\ Len(w) = 3 => /\ w[3].op \in {"POST create", "POST update"}
                             /\ w[2].answer = 200
            /\ (Len(w) \in {1, 2} /\ w[Len(w)].answer # 200 /\ ~InFlight(r))
                  => r.pc = "exit1"

\* C3 witness: the page fetch was answered 404 after the payload had been read;
\* the run has failed with the page fetch as its only wiki request.
C3_Witness ==
    \E p \in DOMAIN run :
        LET r == run[p] IN
        /\ r.pc = "exit1" /\ r.payload_bytes # NoBytes
        /\ Len(WikiReqs(r)) = 1
        /\ WikiReqs(r)[1].op = "GET page" /\ WikiReqs(r)[1].answer = 404

\* the write-back of a run has failed: a write was answered with an error, or a
\* write was asked for after the upload and there is no spreadsheet id
WriteBackFailed(r) ==
    \/ \E i \in 1..Len(r.reqlog) :
         /\ r.reqlog[i].op \in {"values.update", "values.append"}
         /\ r.reqlog[i].answer # 200
    \/ /\ r.printed # NoneVal
       /\ r.args.write_back_range \/ r.args.append_log
       /\ ~r.args.spreadsheet

\* C4: once the upload has succeeded (its line is printed) the run never fails;
\* when its write-back fails, the failure is reported as a warning and the run
\* ends with exit code 0.
C4_WriteBackFailureIsAWarning ==
    \A p \in DOMAIN run :
        LET r == run[p] IN
        /\ r.printed # NoneVal => r.pc \in {"wb_status", "wb_log", "exit0"} /\ r.err = NoErr
        /\ WriteBackFailed(r) => r.warned /\ r.pc = "exit0" /\ r.printed # NoneVal
        /\ r.warned => WriteBackFailed(r)

\* C4 witness: a write-back was asked for without a spreadsheet id; the upload
\* succeeded, the warning was printed and the run ended with exit code 0.
C4_Witness ==
    \E p \in DOMAIN run :
        /\ run[p].pc = "exit0" /\ run[p].warned /\ run[p].printed = "Created"
        /\ run[p].args.write_back_range /\ ~run[p].args.spreadsheet

\* a credential, or a parameter the source kind requires, is missing
MissingRequired(a) ==
    \/ ~a.conf_user \/ ~a.conf_pass \/ ~a.sa_json
    \/ /\ a.source_kind = "sheet_values"
       /\ ~a.spreadsheet \/ (a.gid = NoneVal /\ a.tab_name = NoneVal)
    \/ a.source_kind \in {"drive_export", "drive_download"} /\ ~a.drive_file_id
    \/ a.source_kind = "drive_list" /\ ~a.drive_folder_id

\* C5: a run started without a required credential or without a required
\* parameter of its source kind fails without having issued any request.
C5_MissingParameterFailsOffline ==
    \A p \in DOMAIN run :
        (run[p].pc # "idle" /\ MissingRequired(run[p].args))
           => run[p].pc = "exit1" /\ run[p].reqlog = << >>

\* C9: when the attachment creation request has been answered 503 five times in
\* a row, the run has failed with the creation error that carries status 503.
C9_FiveRefusalsFailWrapped ==
    \A p \in DOMAIN run :
        LET r == run[p] IN
        (r.reqlog # << >> /\ LastReq(r).op = "POST create" /\ r.run_503 >= 5)
           => /\ r.pc = "exit1"
              /\ r.err = [kind |-> "AttachmentCreateFailed", code |-> 503]

\* the requests of every process of either program, with the attempts of the
\* latest one
LatestAttempts ==
    { << LastReq(run[p]), run[p].attempts >> : p \in {q \in DOMAIN run : run[q].reqlog # << >>} }
    \cup
    { << LastReq(call[c]), call[c].attempts >> :
         c \in {d \in DOMAIN call : call[d].reqlog # << >>} }

Puts(k) == SelectSeq(k.reqlog, LAMBDA q : q.op = "PUT update")
Posts(k) == SelectSeq(k.reqlog, LAMBDA q : q.op = "POST create" /\ q.api = "wiki")
VersionReads(k) == SelectSeq(k.reqlog, LAMBDA q : q.op = "GET version")
\* the lookup of the call has been answered with a result list
LookedUp(k) == k.pc \in {"get_version", "put", "post", "done"}
                 \/ k.failed_at \in {"get_version", "put", "post"}
\* the pages of the call's title that were there when its lookup was answered
\* (ids are handed out in order, a page keeps its title, and it stays inside or
\* outside the parent's subtree)
SeenByLookup(k) ==
    SelectSeq(pages, LAMBDA pg : pg.title = k.title /\ pg.id < k.stamp)

\* C6: the id a lookup returns is that of a page of the requested title with the
\* parent among its ancestors; when every page of the title the lookup saw lies
\* outside the parent's subtree, the lookup returns no id, the call sends no
\* version read and no update, and a call that completes has sent one creation
\* request and returns a page that was not there before.
C6_LookupRejectsOtherParents ==
    \A c \in DOMAIN call :
        LET k == call[c]
            seen == SeenByLookup(k)
        IN  LookedUp(k) =>
              /\ k.existing_id # NoId =>
                   \E i \in 1..Len(seen) :
                      /\ seen[i].id = k.existing_id
                      /\ InChain(seen[i], PARENT_PAGE_ID)
              /\ (\A i \in 1..Len(seen) : ~InChain(seen[i], PARENT_PAGE_ID)) =>
                   /\ k.existing_id = NoId
                   /\ Puts(k) = << >> /\ VersionReads(k) = << >>
                   /\ k.pc = "done" => Len(Posts(k)) = 1 /\ k.page_id >= k.stamp

\* C6 witness: a page of the title lies under another parent; a call for that
\* title has completed by creating a second page of the title, and the first
\* page is as it was.
C6_Witness ==
    \E c \in DOMAIN call :
        /\ call[c].pc = "done" /\ call[c].title = "T" /\ call[c].existing_id = NoId
        /\ Len(pages) >= 2
        /\ pages[1] = Page(1, "T", << 200 >>, 1)
        /\ \A i \in 1..Len(pages) : pages[i].id < call[c].stamp =>
              ~InChain(pages[i], PARENT_PAGE_ID)
        /\ call[c].page_id > 1
        /\ Len(Posts(call[c])) = 1

\* C7: a call sends at most one request that writes a page.  When its lookup
\* returned an id, that request is an update of that id carrying the version the
\* version read was answered with plus one, no creation is sent, and a completed
\* call returns the id; when its lookup returned none, no update is sent, and a
\* completed call has sent one creation and returns the id of a page the wiki
\* assigned after the lookup, which has the call's title and the parent.
C7_OneUpdateOrOneCreation ==
    \A c \in DOMAIN call :
        LET k == call[c] IN
        /\ Len(Puts(k)) + Len(Posts(k)) <= 1
        /\ Len(VersionReads(k)) <= 1
        /\ Puts(k) # << >> =>
              /\ k.existing_id # NoId
              /\ Len(VersionReads(k)) = 1
              /\ VersionReads(k)[1].id = k.existing_id
              /\ Puts(k)[1].id = k.existing_id
              /\ Puts(k)[1].version = VersionReads(k)[1].version + 1
        /\ Posts(k) # << >> => k.existing_id = NoId /\ LookedUp(k)
        /\ (k.pc = "done" /\ k.existing_id # NoId) =>
              /\ Len(Puts(k)) = 1 /\ Posts(k) = << >>
              /\ k.page_id = k.existing_id
        /\ (k.pc = "done" /\ k.existing_id = NoId) =>
              /\ Len(Posts(k)) = 1 /\ Puts(k) = << >>
              /\ k.page_id >= k.stamp
              /\ \E i \in 1..Len(pages) :
                    /\ pages[i].id = k.page_id
                    /\ pages[i].title = k.title
                    /\ pages[i].ancestors = << PARENT_PAGE_ID >>

\* C7 witness: a call found the page stored with version 3, sent one update with
\* version 4 and returned the page's id; the page is stored with version 4 and
\* the call's body.
C7_Witness ==
    \E c \in DOMAIN call :
        /\ call[c].pc = "done" /\ call[c].existing_id = 1 /\ call[c].page_id = 1
        /\ Len(Puts(call[c])) = 1 /\ Puts(call[c])[1].version = 4
        /\ Len(pages) = 1 /\ pages[1].version = 4 /\ pages[1].body = c

\* C8: two calls for one title whose lookups both returned no id send no update;
\* when both have completed, each has created a page of its own: two different
\* pages of that title, both with the parent as their ancestor, none of which
\* either lookup saw.
C8_BothCallsCreate ==
    \A c, d \in DOMAIN call :
        LET k == call[c]
            l == call[d]
        IN  ( /\ c # d /\ k.title = l.title
              /\ LookedUp(k) /\ k.existing_id = NoId
              /\ LookedUp(l) /\ l.existing_id = NoId )
            => /\ Puts(k) = << >> /\ Puts(l) = << >>
               /\ (k.pc = "done" /\ l.pc = "done") =>
                    /\ k.page_id # l.page_id
                    /\ k.page_id >= l.stamp /\ l.page_id >= k.stamp
                    /\ \A id \in {k.page_id, l.page_id} :
                          \E i \in 1..Len(pages) :
                             /\ pages[i].id = id
                             /\ pages[i].title = k.title
                             /\ InChain(pages[i], PARENT_PAGE_ID)

\* C8 witness: no page existed; two calls for the same title have completed and
\* the wiki holds two pages of that title directly under the parent.
C8_Witness ==
    \E c, d \in DOMAIN call :
        /\ c # d /\ call[c].title = call[d].title
        /\ call[c].pc = "done" /\ call[d].pc = "done"
        /\ call[c].stamp = 1 /\ call[d].stamp = 1
        /\ Len(pages) = 2
        /\ pages[1].title = call[c].title /\ pages[2].title = call[c].title
        /\ pages[1].ancestors = << PARENT_PAGE_ID >>
        /\ pages[2].ancestors = << PARENT_PAGE_ID >>
        /\ pages[1].id # pages[2].id

\* ------------------------------------------ properties: generation pipeline
\* the generation backend has refused a record of the run
Halted(k) ==
    \E i \in 1..Len(k.reqlog) : k.reqlog[i].api = "llm" /\ k.reqlog[i].answer # 200

\* C11: once the generation backend has answered a record's request with anything
\* but 200, the run has failed with that request as its last one, and from then
\* on it sends nothing and no page changes: no lookup, creation or update for
\* that record, no request for a later record, earlier pages as they are.
C11_HaltsAtRefusedGeneration ==
    /\ [](\A c \in GenProcs :
            Halted(call[c]) =>
               /\ call[c].pc = "failed"
               /\ LastReq(call[c]).api = "llm"
               /\ LastReq(call[c]).answer # 200
               /\ LastReq(call[c]).rec = call[c].rec)
    /\ [][\A c \in GenProcs :
            Halted(call[c]) => call'[c] = call[c] /\ pages' = pages]_vars

\* C11 witness: the page of the first record was created, the generation request
\* of the second record was answered 500, and a third record is left unread.
C11_Witness ==
    \E c \in GenProcs :
        LET k == call[c] IN
        /\ k.pc = "failed" /\ k.rec = 2 /\ k.idx = 3 /\ Len(k.values) = 4
        /\ LastReq(k).api = "llm" /\ LastReq(k).answer = 500
        /\ \E i \in 1..Len(k.reqlog) :
              /\ k.reqlog[i].op = "POST create" /\ k.reqlog[i].rec = 1
              /\ k.reqlog[i].answer = 200
        /\ Len(pages) = 1
        /\ ~is_blank_row(k.values[4])

\* the trimmed cell of data row i in the column headed name (whitespace runs of
\* the header cell collapsed, its ends trimmed); empty when the sheet has no such
\* column or the row does not reach it
CellOf(values, i, name) ==
    LET cols == {j \in 1..Len(values[1]) : normalize(values[1][j]) = name}
        row == values[i + 1]
    IN  IF cols = {} THEN << >>
        ELSE LET j == CHOOSE x \in cols : \A y \in cols : y <= x
             IN  IF j <= Len(row) THEN strip(row[j]) ELSE << >>

BlankRow(values, i) ==
    \A j \in 1..Len(values[i + 1]) : strip(values[i + 1][j]) = << >>

\* data row i is to be skipped
ToSkip(values, i) ==
    \/ BlankRow(values, i)
    \/ CellOf(values, i, K_Section) = << >>
    \/ CellOf(values, i, K_SectionTitle) = << >>

\* '<module>.<section> – <sectionTitle>' of data row i
TitleFor(values, i) ==
    CellOf(values, i, K_Module) \o << "." >> \o CellOf(values, i, K_Section)
      \o << " ", "ENDASH", " " >> \o CellOf(values, i, K_SectionTitle)

ReqsOf(k, i) == SelectSeq(k.reqlog, LAMBDA q : q.rec = i)
CountOps(reqs, ops) == Len(SelectSeq(reqs, LAMBDA q : q.op \in ops))

\* C12: a data row that is blank, or whose Section or Section Title is empty
\* after trimming, gets no request; the run fails only on a refused request;
\* requests are sent in row order; every other row the loop has passed gets one
\* generation request first and then one page upsert (one title search, then one
\* update or one creation), all under the title '<module>.<section> –
\* <sectionTitle>'; a run that ends without failure has done so for every such row.
C12_SkipsIncompleteRows ==
    \A c \in GenProcs :
        LET k == call[c] IN
        /\ k.pc = "failed" => k.reqlog # << >> /\ LastReq(k).answer # 200
        /\ \A i, j \in 1..Len(k.reqlog) :
              i <= j => k.reqlog[i].rec <= k.reqlog[j].rec
        /\ \A i \in 1..(Len(k.values) - 1) :
              LET q == ReqsOf(k, i)
                  over == i < k.rec \/ (i = k.rec /\ k.pc \in {"done", "loop", "finished"})
              IN  /\ ToSkip(k.values, i) => q = << >>
                  /\ k.pc = "finished" /\ ~ToSkip(k.values, i) => over
                  /\ q # << >> =>
                       /\ q[1].op = "POST generate"
                       /\ CountOps(q, {"POST generate"}) = 1
                       /\ CountOps(q, {"GET search"}) <= 1
                       /\ CountOps(q, {"PUT update", "POST create"}) <= 1
                       /\ Len(q) >= 2 => q[2].op = "GET search"
                       /\ \A n \in 1..Len(q) : q[n].title = TitleFor(k.values, i)
                  /\ over /\ ~ToSkip(k.values, i) =>
                       /\ CountOps(q, {"POST generate"}) = 1
                       /\ CountOps(q, {"GET search"}) = 1
                       /\ CountOps(q, {"PUT update", "POST create"}) = 1
                       /\ q[Len(q)].op \in {"PUT update", "POST create"}
                       /\ q[Len(q)].answer = 200

\* C12 witness: a run over a blank row, a row without section and a complete row
\* has ended; it sent the sheet read and, for the complete row alone, one
\* generation request, one search and one creation.
C12_Witness ==
    \E c \in GenProcs :
        LET k == call[c] IN
        /\ k.pc = "finished" /\ Len(k.values) = 4
        /\ BlankRow(k.values, 1)
        /\ ~BlankRow(k.values, 2) /\ ToSkip(k.values, 2)
        /\ ~ToSkip(k.values, 3)
        /\ Len(k.reqlog) = 4
        /\ Len(ReqsOf(k, 3)) = 3
        /\ LastReq(k).op = "POST create" /\ LastReq(k).title = TitleOfRow

\* ----------------------------------------------- properties: reader helpers
\* the longest row of a grid
Widest(g) == CHOOSE i \in 1..Len(g) : \A l \in 1..Len(g) : Len(g[l]) <= Len(g[i])
\* the cell of row i and column j of a grid once its rows are padded with ""
PaddedCell(g, i, j) == IF j <= Len(g[i]) THEN g[i][j] ELSE << >>
\* the header names of a grid: the cells of its first row, padded and trimmed
Names(g) == { strip(PaddedCell(g, 1, j)) : j \in 1..Len(g[Widest(g)]) }
\* the last column of a grid whose header is name
LastColumn(g, name) ==
    CHOOSE j \in 1..Len(g[Widest(g)]) :
        /\ strip(PaddedCell(g, 1, j)) = name
        /\ \A l \in 1..Len(g[Widest(g)]) : strip(PaddedCell(g, 1, l)) = name => l <= j

\* C13 as stated: for the grid [["Module","Section"],["","  "]] the generation
\* path sends no request for any record and toRecords returns one record whose
\* two values are both the empty string.
C13_BothValuesEmpty ==
    /\ \A c \in GenProcs :
          call[c].values = GridOfBlanks =>
             \A i \in 1..Len(call[c].reqlog) : call[c].reqlog[i].rec = 0
    /\ (table.pc = "records" /\ table.values = GridOfBlanks) =>
          /\ Len(table.out) = 1
          /\ table.out[1] = [name \in {K_Module, K_Section} |-> << >>]

\* C13: for the grid [["Module","Section"],["","  "]] the generation path sends
\* no request for any record and its loop ends without a record, and toRecords
\* returns one record that maps Module to the empty string and Section to the
\* cell as it is, the string of two spaces.
C13_SectionKeepsItsSpaces ==
    /\ \A c \in GenProcs :
          call[c].values = GridOfBlanks =>
             /\ \A i \in 1..Len(call[c].reqlog) : call[c].reqlog[i].rec = 0
             /\ call[c].rec = 0
             /\ call[c].pc \in {"loop", "finished"}
    /\ (table.pc = "records" /\ table.values = GridOfBlanks) =>
          /\ Len(table.out) = 1
          /\ DOMAIN table.out[1] = {K_Module, K_Section}
          /\ table.out[1][K_Module] = << >>
          /\ table.out[1][K_Section] = << " ", " " >>

\* C13 witness: the generation run over that grid has ended having sent the sheet
\* read only, and toRecords has returned one record for the same grid.
C13_Witness ==
    /\ \E c \in GenProcs :
          /\ call[c].pc = "finished" /\ call[c].values = GridOfBlanks
          /\ Len(call[c].reqlog) = 1
    /\ table.pc = "records" /\ table.values = GridOfBlanks
    /\ Len(table.out) = 1

\* C14 as stated: for a non-empty grid toRecords returns rows-1 records, each
\* with exactly as many keys as the normalized grid has columns.
C14_KeysEqualColumns ==
    (table.pc = "records" /\ table.values # << >>) =>
        /\ Len(table.out) = Len(table.values) - 1
        /\ \A r \in 1..Len(table.out) :
              Cardinality(DOMAIN table.out[r]) = Len(table.values[Widest(table.values)])

\* C14: for a non-empty grid toRecords returns rows-1 records in row order (record
\* r holds cells of row r+1 only, each under the header of its column or a later
\* column of the same header), each with exactly one key per distinct trimmed
\* header cell: as many keys as columns when no two header cells are equal after
\* trimming, fewer otherwise.
C14_KeysAreDistinctHeaders ==
    (table.pc = "records" /\ table.values # << >>) =>
        LET g == table.values
            width == Len(g[Widest(g)])
        IN  /\ Len(table.out) = Len(g) - 1
            /\ \A r \in 1..Len(table.out) :
                  /\ DOMAIN table.out[r] = Names(g)
                  /\ Cardinality(DOMAIN table.out[r]) <= width
                  /\ (\A i, j \in 1..width :
                         i # j => strip(PaddedCell(g, 1, i)) # strip(PaddedCell(g, 1, j)))
                       => Cardinality(DOMAIN table.out[r]) = width
                  /\ \A name \in Names(g) :
                        \E j \in 1..width :
                           /\ strip(PaddedCell(g, 1, j)) = name
                           /\ table.out[r][name] = PaddedCell(g, r + 1, j)

\* C14 witness: a grid of three rows and two columns whose header cells differ
\* only by surrounding whitespace gave two records of one key each.
C14_Witness ==
    /\ table.pc = "records" /\ Len(table.values) = 3
    /\ table.values[1] = << << "a" >>, << " ", "a" >> >>
    /\ Len(table.out) = 2
    /\ Cardinality(DOMAIN table.out[1]) = 1

\* C15: when two header cells are equal after trimming, toRecords still returns
\* its records, and in each of them the one entry for that header holds the cell
\* of the rightmost column with that header.
C15_RightmostColumnWins ==
    (table.pc = "records" /\ table.values # << >>) =>
        LET g == table.values IN
        /\ Len(table.out) = Len(g) - 1
        /\ \A r \in 1..Len(table.out) :
              \A name \in Names(g) :
                 /\ name \in DOMAIN table.out[r]
                 /\ table.out[r][name] = PaddedCell(g, r + 1, LastColumn(g, name))

\* C15 witness: the header cells "a" and " a" head the cells "x" and ""; the
\* record holds the one key "a" with the value "".
C15_Witness ==
    /\ table.pc = "records"
    /\ table.values = << << << "a" >>, << " ", "a" >> >>, << << "x" >>, << >> >> >>
    /\ table.out = << [name \in { << "a" >> } |-> << >>] >>

\* C16: normalize returns a grid with as many rows as its input, every row as
\* long as the longest input row, every input cell where it was and every other
\* cell the empty string; the empty grid is returned as it is.
C16_NormalizePads ==
    table.pc = "normalized" =>
        LET g == table.values
            n == table.out
        IN  /\ g = << >> => n = << >>
            /\ Len(n) = Len(g)
            /\ \A i \in 1..Len(n) :
                  /\ Len(n[i]) = Len(g[Widest(g)])
                  /\ \A j \in 1..Len(n[i]) : n[i][j] = PaddedCell(g, i, j)

\* C16 witness: a grid whose header row is shorter than a data row and longer
\* than another has been padded to two columns.
C16_Witness ==
    /\ table.pc = "normalized" /\ Len(table.values) = 3
    /\ Len(table.values[1]) = 1 /\ Len(table.values[2]) = 2 /\ Len(table.values[3]) = 0
    /\ table.out[1][2] = << >> /\ table.out[3] = << << >>, << >> >>
    /\ table.out[2] = table.values[2]

\* ------------------------------------------------- properties: CSV encoding
\* the lines of a text, each ended by CRLF (a tail without CRLF is a line too)
RECURSIVE LinesFrom(_, _, _)
LinesFrom(text, cur, acc) ==
    IF text = << >> THEN (IF cur = << >> THEN acc ELSE Append(acc, cur))
    ELSE IF Len(text) >= 2 /\ text[1] = "\r" /\ text[2] = "\n"
         THEN LinesFrom(SubSeq(text, 3, Len(text)), << >>, Append(acc, cur))
         ELSE LinesFrom(Tail(text), Append(cur, Head(text)), acc)

SplitLines(text) == LinesFrom(text, << >>, << >>)

\* the pieces of a line between its commas
RECURSIVE PiecesFrom(_, _, _)
PiecesFrom(line, cur, acc) ==
    IF line = << >> THEN Append(acc, cur)
    ELSE IF Head(line) = "," THEN PiecesFrom(Tail(line), << >>, Append(acc, cur))
    ELSE PiecesFrom(Tail(line), Append(cur, Head(line)), acc)

SplitAtCommas(line) == PiecesFrom(line, << >>, << >>)

\* the cells of a line read by the CSV quoting rule: a cell that starts with a
\* double quote runs to its closing quote, a doubled quote inside it is one
\* quote, commas inside it are text; an empty line has no cell
RECURSIVE CellsFrom(_, _, _, _)
CellsFrom(line, quoted, cur, acc) ==
    IF line = << >> THEN Append(acc, cur)
    ELSE IF quoted
         THEN IF Head(line) = "\""
              THEN IF Len(line) >= 2 /\ line[2] = "\""
                   THEN CellsFrom(SubSeq(line, 3, Len(line)), TRUE, Append(cur, "\""), acc)
                   ELSE CellsFrom(Tail(line), FALSE, cur, acc)
              ELSE CellsFrom(Tail(line), TRUE, Append(cur, Head(line)), acc)
         ELSE IF Head(line) = "," THEN CellsFrom(Tail(line), FALSE, << >>, Append(acc, cur))
              ELSE IF Head(line) = "\"" /\ cur = << >>
                   THEN CellsFrom(Tail(line), TRUE, cur, acc)
                   ELSE CellsFrom(Tail(line), FALSE, Append(cur, Head(line)), acc)

ReadCells(line) == IF line = << >> THEN << >> ELSE CellsFrom(line, FALSE, << >>, << >>)

\* C17 as stated: the encoded text starts with the byte-order marker; the rest,
\* split on CRLF, has one line per row, and each line split into cells at its
\* commas gives the row's cells.
C17_SplitAtCommasRoundTrips ==
    table.pc = "encoded" =>
        LET lines == SplitLines(Tail(table.out)) IN
        /\ Head(table.out) = "BOM"
        /\ Len(lines) = Len(table.values)
        /\ \A i \in 1..Len(lines) : SplitAtCommas(lines[i]) = table.values[i]

\* C17: the encoded text starts with the byte-order marker; the rest, split on
\* CRLF, has one line per row, and each line read by the CSV quoting rule gives
\* the row's cells; splitting at the commas does so too for a row of at least
\* one cell whose cells hold neither comma nor double quote and that is not the
\* single empty cell.
C17_QuotedRoundTrips ==
    table.pc = "encoded" =>
        LET lines == SplitLines(Tail(table.out)) IN
        /\ Head(table.out) = "BOM"
        /\ Len(lines) = Len(table.values)
        /\ \A i \in 1..Len(lines) :
              LET row == table.values[i] IN
              /\ ReadCells(lines[i]) = row
              /\ ( /\ row # << >> /\ row # << << >> >>
                   /\ \A j \in 1..Len(row) : \A n \in 1..Len(row[j]) :
                         row[j][n] \notin {",", "\""} )
                 => SplitAtCommas(lines[i]) = row

\* C17 witness: the grid [['a"', ','], ['']] is encoded as the marker, the line
\* "a""",","  and the line "".
C17_Witness ==
    /\ table.pc = "encoded"
    /\ table.values = << << << "a", "\"" >>, << "," >> >>, << << >> >> >>
    /\ table.out = << "BOM", "\"", "a", "\"", "\"", "\"", ",", "\"", ",", "\"", "\r", "\n",
                      "\"", "\"", "\r", "\n" >>


\* ---------------------------------------------------------- folder listing
ListRequests(r) == SelectSeq(r.reqlog, LAMBDA q : q.op = "list")
\* the field of a file as a cell: a field the file lacks is the empty text
FieldCell(v) == IF v = NoneCell THEN << >> ELSE v
\* id,name,mimeType,modifiedTime,size and the end of the line
ListingHeaderLine ==
    << "i", "d", ",", "n", "a", "m", "e", ",", "m", "i", "m", "e", "T", "y", "p", "e", ",",
       "m", "o", "d", "i", "f", "i", "e", "d", "T", "i", "m", "e", ",",
       "s", "i", "z", "e", "\r", "\n" >>
ListingLine(f) ==
    FieldCell(f.id) \o <<",">> \o FieldCell(f.name) \o <<",">> \o FieldCell(f.mimeType)
    \o <<",">> \o FieldCell(f.modifiedTime) \o <<",">> \o FieldCell(f.size)
    \o << "\r", "\n" >>
RECURSIVE ListingLines(_)
ListingLines(fs) ==
    IF fs = << >> THEN << >> ELSE ListingLine(Head(fs)) \o ListingLines(Tail(fs))

\* C18: a folder-listing run asks for one page per answer received; every answer
\* but the last one came with a continuation token, and the listing goes on
\* exactly while the last answer did; once it has ended, the payload is the
\* byte-order marker, the line id,name,mimeType,modifiedTime,size and one line
\* per file of all the pages in the order they came, a field the file lacks
\* being an empty cell; a folder without files gives the header line alone.
C18_ListingIsHeaderThenEveryFile ==
    \A p \in SeqProcs :
        LET r == run[p]
            n == Len(r.tokens)
            refused == IF r.pc = "exit1" /\ r.failed_at = "drive_list" THEN 1 ELSE 0
        IN  r.pc # "absent" /\ r.args.source_kind = "drive_list" =>
            /\ Len(ListRequests(r)) = n + refused
            /\ \A i \in 1..(n - 1) : r.tokens[i]
            /\ r.pc = "drive_list" => (n = 0 \/ r.tokens[n]) /\ r.payload_bytes = NoBytes
            /\ refused = 1 => (n = 0 \/ r.tokens[n]) /\ r.payload_bytes = NoBytes
            /\ r.payload_bytes # NoBytes =>
                  /\ n >= 1 /\ ~r.tokens[n]
                  /\ r.payload_bytes
                       = <<"BOM">> \o ListingHeaderLine \o ListingLines(r.listed)
                  /\ r.listed = << >> => r.payload_bytes = <<"BOM">> \o ListingHeaderLine

\* C18 witness: a listing of two pages of one file each, the first a folder
\* entry without a size, has been encoded as the header line and two lines.
C18_Witness ==
    \E p \in SeqProcs :
        /\ run[p].args.source_kind = "drive_list"
        /\ run[p].pc = "page_check"
        /\ run[p].tokens = << TRUE, FALSE >>
        /\ Len(run[p].listed) = 2
        /\ run[p].listed[1].size = NoneCell
        /\ run[p].payload_bytes
             = <<"BOM">> \o ListingHeaderLine
               \o << "i", "1", ",", "n", ",", "m", ",", "t", ",", "\r", "\n",
                     "i", "2", ",", "n", ",", "m", ",", "t", ",", "9", "\r", "\n" >>


\* ------------------------------------------------------- the job endpoint
\* the process was run and went on for longer than the timeout setting allows
RanTooLong(j) ==
    /\ is_int(timeout_setting(j.environ))
    /\ j.process.starts
    /\ j.process.seconds > int_of(timeout_setting(j.environ))
\* the process could not be run: the setting is no number, or bash did not start
CouldNotRun(j) == ~is_int(timeout_setting(j.environ)) \/ ~j.process.starts
Exited(j, codes) ==
    ~CouldNotRun(j) /\ ~RanTooLong(j) /\ j.process.code \in codes

\* C19: the answer to a job request has status 504 exactly when the process ran
\* for longer than the timeout, status 500 with ok false exactly when it could
\* not be run or ended with a code other than 0, and is the success answer with
\* ok true exactly when it ended with code 0, carrying what the process wrote.
C19_OneAnswerPerProcessOutcome ==
    job.pc = "answered" =>
        LET a == job.response IN
        /\ a.status \in {200, 500, 504}
        /\ a.status = 504 <=> RanTooLong(job)
        /\ a.status = 500 <=> CouldNotRun(job) \/ Exited(job, {1, -9})
        /\ a.status = 200 <=> Exited(job, {0})
        /\ a.ok <=> a.status = 200
        /\ a.status = 200 =>
              a.stdout = job.process.stdout /\ a.stderr = job.process.stderr
        /\ Exited(job, {1, -9}) => a.exit_code = job.process.code

\* C19 witness: a process that ended with code 0 within the timeout after
\* writing "done" has been answered with ok true and that output.
C19_Witness ==
    /\ job.pc = "answered"
    /\ job.process.starts /\ job.process.code = 0 /\ job.process.stdout = "done"
    /\ job.response.status = 200 /\ job.response.ok
    /\ job.response.stdout = "done"


\* ------------------------------------------------- write-back after upload
SheetWrites(r) ==
    { i \in 1..Len(r.reqlog) : r.reqlog[i].op \in {"values.update", "values.append"} }
\* an upload among the first n requests of the run was answered with success
UploadedWithin(r, n) ==
    \E j \in 1..n :
        /\ r.reqlog[j].op \in {"POST create", "POST update"}
        /\ r.reqlog[j].answer \in 200..299

\* C20: in every run, a status write or log append to the spreadsheet comes
\* after an upload that was answered with success, the run reaches the
\* write-back only with such an upload behind it, and a run that failed at the
\* page check, the lookup or the upload has written nothing to the spreadsheet.
C20_WriteBackOnlyAfterUpload ==
    \A p \in SeqProcs :
        LET r == run[p] IN
        /\ \A i \in SheetWrites(r) : UploadedWithin(r, i - 1)
        /\ r.pc \in {"wb_status", "wb_log"} => UploadedWithin(r, Len(r.reqlog))
        /\ r.pc = "exit1" /\ r.failed_at \in {"page_check", "find", "create", "update"}
             => SheetWrites(r) = {}

\* C20 witness: a run replaced the attachment, then wrote the status cell and
\* appended the log line.
C20_Witness ==
    \E p \in SeqProcs :
        LET r == run[p]
            n == Len(r.reqlog)
        IN  /\ r.pc = "exit0" /\ n >= 3
            /\ r.reqlog[n - 2].op = "POST update" /\ r.reqlog[n - 2].answer = 200
            /\ r.reqlog[n - 1].op = "values.update"
            /\ r.reqlog[n].op = "values.append"


\* ---------------------------------------------------------------- timeouts
\* C21: every request of an attachment-sync run and of a page-generation call
\* is sent with a timeout.
C21_EveryRequestHasATimeout ==
    /\ \A p \in DOMAIN run : \A i \in 1..Len(run[p].reqlog) :
          run[p].reqlog[i].timeout # << >>
    /\ \A c \in DOMAIN call : \A i \in 1..Len(call[c].reqlog) :
          call[c].reqlog[i].timeout # << >>


\* --------------------------------------------------------- tab resolution
OpsOf(r) == [i \in 1..Len(r.reqlog) |-> r.reqlog[i].op]
TabsWithId(gid) == { i \in 1..Len(SheetTabs) : SheetTabs[i].sheetId = gid }

\* C22: in a table-values run given a gid and no tab name, a value fetch comes
\* directly after a metadata query that was answered, some tab has the gid, and
\* the fetch names the title of that tab; when no tab has the gid, the run
\* fails with the tab-not-found error once the metadata query is answered and
\* that query stays its only request. In a run given a tab name no metadata
\* query is sent and every value fetch names the given tab.
C22_ValuesFetchedForTheMatchingTab ==
    \A p \in SeqProcs :
        LET r == run[p]
            a == r.args
            ops == OpsOf(r)
        IN  r.pc \notin {"absent", "idle"} /\ a.source_kind = "sheet_values" =>
            /\ a.tab_name # NoneVal =>
                  \A i \in 1..Len(ops) :
                     /\ ops[i] # "get"
                     /\ ops[i] = "values.get" => r.reqlog[i].range = a.tab_name
            /\ a.tab_name = NoneVal /\ a.gid # NoneVal =>
                  /\ \A i \in 1..Len(ops) : ops[i] = "values.get" =>
                        /\ i > 1 /\ ops[i - 1] = "get" /\ r.reqlog[i - 1].answer = 200
                        /\ \E t \in TabsWithId(a.gid) :
                              r.reqlog[i].range = SheetTabs[t].title
                  /\ TabsWithId(a.gid) = {} /\ ops # << >> /\ r.reqlog[1].answer = 200 =>
                        /\ r.pc = "exit1" /\ r.err.kind = "TabNotFound"
                        /\ ops = << "get" >>

\* C22 witness: a run given gid 0 and no tab name has sent the metadata query
\* and then fetched the values of "Data", the tab of that id.
C22_Witness ==
    \E p \in SeqProcs :
        LET r == run[p] IN
        /\ r.args.tab_name = NoneVal /\ r.args.gid = "0"
        /\ Len(r.reqlog) >= 2
        /\ r.reqlog[1].op = "get" /\ r.reqlog[2].op = "values.get"
        /\ r.reqlog[2].range = "Data" /\ r.reqlog[2].answer = 200


\* ------------------------------------------- the tab reference of a job
\* C23: whenever the job request names a sheet_gid, the batch process is started
\* with SHEET_GID set to that gid and SHEET_TAB_NAME empty, also when the
\* request names a sheet_tab_name as well.
C23_GidWinsOverTabName ==
    (job.pc \in {"ran", "answered"} /\ job.req.sheet_gid # NoneVal
       /\ job.result.kind \in {"returned", "TimeoutExpired"})
    => /\ job.result.env.SHEET_GID = job.req.sheet_gid
       /\ job.result.env.SHEET_TAB_NAME = ""


\* ------------------------------------------------ the two write-back steps
\* C24: a log append is sent only directly after a status write that was
\* answered with success, or in a run that asked for no status write; a run
\* whose status write failed has appended no log row, has reported the failure
\* and has ended with exit code 0.
C24_LogAppendNeedsTheStatusWrite ==
    \A p \in SeqProcs :
        LET r == run[p]
            ops == OpsOf(r)
        IN  /\ \A i \in 1..Len(ops) : ops[i] = "values.append" =>
                  IF r.args.write_back_range
                  THEN i > 1 /\ ops[i - 1] = "values.update" /\ r.reqlog[i - 1].answer = 200
                  ELSE \A j \in 1..Len(ops) : ops[j] # "values.update"
            /\ \A i \in 1..Len(ops) :
                  ops[i] = "values.update" /\ r.reqlog[i].answer # 200 =>
                     /\ \A j \in 1..Len(ops) : ops[j] # "values.append"
                     /\ r.pc = "exit0" /\ r.warned

\* C24 witness: a run asked for both write-back steps, its status write was
\* refused, and it ended with exit code 0 and a warning without a log append.
C24_Witness ==
    \E p \in SeqProcs :
        LET r == run[p] IN
        /\ r.args.write_back_range /\ r.args.append_log /\ r.args.spreadsheet
        /\ r.pc = "exit0" /\ r.warned
        /\ LastReq(r).op = "values.update" /\ LastReq(r).answer = 500


\* ------------------------------------------------- two syncs at one time
Creations(r) == SelectSeq(r.reqlog, LAMBDA q : q.op = "POST create")
Stored(r) == SelectSeq(Uploads(r), LAMBDA q : q.answer = 200)
LookupAnswered(r) ==
    \E i \in 1..Len(r.reqlog) :
        r.reqlog[i].op = "GET attachment" /\ r.reqlog[i].answer = 200

\* C25: of two runs at the same time for one page and one filename, each sends
\* a creation request exactly when its own lookup found nothing, whatever the
\* other run has done since; a run whose lookup found the attachment sends no
\* creation request; and when both creation requests are stored, the page
\* holds two attachments of that filename under different ids.
C25_BothRunsMayCreate ==
    /\ \A p \in RaceProcs :
          LET r == run[p] IN
          /\ Creations(r) # << >> => LookupAnswered(r) /\ r.found = << >> /\ r.att_id = NoId
          /\ LookupAnswered(r) /\ r.found = << >> =>
                r.pc \in {"create", "exit0", "exit1"} /\ r.att_id = NoId
          /\ r.found # << >> => Creations(r) = << >> /\ r.att_id = r.found[1]
    /\ (\A p \in RaceProcs : Creations(run[p]) # << >> /\ Stored(run[p]) # << >>) =>
          /\ Len(attachments) = 2
          /\ attachments[1].filename = attachments[2].filename
          /\ attachments[1].id # attachments[2].id

\* C25 witness: both runs were told that the page has no attachment of the
\* name, both sent a creation request, and both requests were stored.
C25_Witness ==
    /\ \A p \in RaceProcs :
          /\ run[p].found = << >> /\ run[p].pc = "exit0"
          /\ Len(Creations(run[p])) = 1 /\ Creations(run[p])[1].answer = 200
    /\ Len(attachments) = 2
    /\ attachments[1].filename = "a.csv" /\ attachments[2].filename = "a.csv"


\* ----------------------------------------------- two updates of one page
\* the call's update of the page was stored
Accepted(k) == Puts(k) # << >> /\ Puts(k)[Len(Puts(k))].answer = 200
\* both calls read the same version of the same page and both sent an update
SameVersionRead(k, l) ==
    /\ Puts(k) # << >> /\ Puts(l) # << >>
    /\ k.existing_id = l.existing_id
    /\ k.current_version = l.current_version

\* C26: two calls that read the same version v of one page both send an update
\* with version v + 1, and the wiki stores at most one of them; the other is
\* answered with a refusal, fails with that error at the update having sent one
\* version read and one update, and as long as no later update of the page is
\* stored the page has version v + 1 and the body of the stored update.
C26_StaleUpdateFailsOnce ==
    \A c, d \in Callers :
        LET k == call[c]
            l == call[d]
        IN  (c # d /\ SameVersionRead(k, l)) =>
            /\ Puts(k)[1].version = k.current_version + 1
            /\ Puts(l)[1].version = k.current_version + 1
            /\ ~(Accepted(k) /\ Accepted(l))
            /\ Accepted(k) =>
                  /\ l.pc = "failed" /\ l.failed_at = "put" /\ l.err.kind = "HTTPError"
                  /\ Puts(l)[1].answer \in {409, 503}
                  /\ Len(VersionReads(l)) = 1 /\ Len(Puts(l)) = 1
                  /\ (\A e \in Callers :
                         Accepted(call[e]) /\ call[e].existing_id = k.existing_id
                            => Puts(call[e])[1].version <= k.current_version + 1)
                     => LET pg == PageById(pages, k.existing_id)
                        IN  pg.version = k.current_version + 1 /\ pg.body = k.body

\* C26 witness: two calls read version 3 of the page and both sent version 4;
\* the first was stored, the second was answered 409 and has failed, and the
\* page has version 4 and the first call's body.
C26_Witness ==
    \E c, d \in Callers :
        /\ c # d
        /\ call[c].existing_id = 1 /\ call[d].existing_id = 1
        /\ call[c].current_version = 3 /\ call[d].current_version = 3
        /\ Accepted(call[c]) /\ call[c].pc = "done"
        /\ Puts(call[d]) # << >> /\ Puts(call[d])[1].version = 4
        /\ Puts(call[d])[1].answer = 409 /\ call[d].pc = "failed"
        /\ Len(pages) = 1 /\ pages[1].version = 4 /\ pages[1].body = c


\* ------------------------------------------------- pages deeper in the tree
\* the pages among ps that have the parent somewhere in their ancestor chain
UnderParent(ps) ==
    { i \in 1..Len(ps) :
        \E j \in 1..Len(ps[i].ancestors) : ps[i].ancestors[j] = PARENT_PAGE_ID }

\* C27: when a page of the title that the lookup saw has the parent anywhere in
\* its ancestor chain, the lookup returns the first such page and the call
\* sends no creation request; a page whose update was stored has the parent as
\* its only ancestor.
C27_DeeperDescendantIsUpdated ==
    \A c \in Callers :
        LET k == call[c]
            seen == SeenByLookup(k)
            under == UnderParent(seen)
        IN  LookedUp(k) =>
            /\ under # {} =>
                  /\ \E i \in under :
                        /\ \A j \in under : i <= j
                        /\ k.existing_id = seen[i].id
                  /\ Posts(k) = << >>
            /\ Accepted(k) =>
                  PageById(pages, k.existing_id).ancestors = << PARENT_PAGE_ID >>

\* C27 witness: the page of the title lay two levels below the parent; a call
\* for the title has updated it, no page was created, and the page is now a
\* direct child of the parent.
C27_Witness ==
    \E c \in Callers :
        /\ call[c].pc = "done" /\ call[c].title = "T" /\ call[c].existing_id = 2
        /\ Len(Puts(call[c])) = 1 /\ Puts(call[c])[1].version = 3
        /\ Posts(call[c]) = << >>
        /\ Len(pages) = 2
        /\ pages[1] = Page(1, "T", << 200 >>, 1)
        /\ pages[2].ancestors = << PARENT_PAGE_ID >> /\ pages[2].version = 3
        /\ pages[2].body = c


\* --------------------------------------------------------- credential scopes
\* C28: a run that has built its Google services asked for the spreadsheet edit
\* scope exactly when a write-back range or a log-append range is given, and
\* for the read-only spreadsheet scope otherwise; it asked for the file-storage
\* read scope exactly for the source kinds drive_export, drive_download and
\* drive_list; a run given neither range sends no update or append to the
\* spreadsheet, and a run that built no services has sent no request.
C28_WriteScopeOnlyForWriteBack ==
    \A p \in SeqProcs :
        LET r == run[p]
            a == r.args
            writes == a.write_back_range \/ a.append_log
        IN  r.pc \notin {"absent", "idle"} =>
            /\ r.scopes = {} => r.reqlog = << >>
            /\ r.scopes # {} =>
                  /\ "spreadsheets" \in r.scopes <=> writes
                  /\ "spreadsheets.readonly" \in r.scopes <=> ~writes
                  /\ "drive.readonly" \in r.scopes
                        <=> a.source_kind \in {"drive_export", "drive_download", "drive_list"}
                  /\ r.scopes \subseteq {"spreadsheets", "spreadsheets.readonly",
                                         "drive.readonly"}
            /\ ~writes => SheetWrites(r) = {}
            /\ SheetWrites(r) # {} => "spreadsheets" \in r.scopes

\* C28 witness: a folder-listing run given neither range has ended with exit
\* code 0 under the two read-only scopes and without a write to the spreadsheet.
C28_Witness ==
    \E p \in SeqProcs :
        /\ run[p].pc = "exit0" /\ run[p].args.source_kind = "drive_list"
        /\ ~run[p].args.write_back_range /\ ~run[p].args.append_log
        /\ run[p].scopes = {"spreadsheets.readonly", "drive.readonly"}
        /\ Uploads(run[p]) # << >> /\ SheetWrites(run[p]) = {}

=============================================================================
